---- MODULE Spec2Model ----
(***************************************************************************)
(* SpaceLink Enterprise Gateway: the api-gateway's credential resolution,  *)
(* role and tenant gates, telemetry ingestion and the health / SLA engine, *)
(* as a state machine over the network, partner, telemetry and key stores. *)
(*                                                                         *)
(* Numbers that are floats in the gateway (latencies, percentages, SLA     *)
(* targets, scores) are fixed-point integers counted in 1/Scale units.     *)
(* Time is counted in hours.  An optional value is the empty tuple (None)  *)
(* or a one-element tuple <<v>>.                                           *)
(***************************************************************************)
EXTENDS Integers, Sequences, FiniteSets, TLC

\* ------------------------------------------------------------------ bounds
MaxNetworks == 1
MaxPartners == 1
MaxReadings == 2
MaxKeys == 1
MaxTime == 1
MaxBatch == 2

\* ------------------------------------------------------- program constants
Scale == 1000
\* ACCESS_TOKEN_EXPIRE_MINUTES = 60, in hours
ACCESS_TOKEN_EXPIRE == 1
\* timedelta(days=30), in hours
SlaDefaultDays == 720

None == <<>>
Some(v) == <<v>>
Min(a, b) == IF a < b THEN a ELSE b
Max(a, b) == IF a > b THEN a ELSE b

\* Python truthiness of an Optional[float]: None and 0.0 are both falsy.
Truthy(x) == x # None /\ x[1] # 0
\* Python truthiness of an Optional[str]: None and "" are both falsy.
TruthyStr(s) == s # ""

\* round(x, 2) on a value counted in 1/Scale units (Scale = 1000: to the
\* nearest 10, halves upward).
Round2(x) == ((x + 5) \div 10) * 10

VARIABLES networks, partners, telemetry, API_KEYS_DB, now, resp, inflight
vars == <<networks, partners, telemetry, API_KEYS_DB, now, resp, inflight>>
stores == <<networks, partners, telemetry, API_KEYS_DB>>

\* ------------------------------------------------------------- identities
ADMIN_ORG == "SpaceLink Internal"
ACME == "ACME Corporation"
CUSTOMER == "Customer Inc"
Organizations == {ACME, CUSTOMER}

\* The user store.  The first three accounts are the seeded ones; the last
\* two are an account with the fourth role the User model names and an
\* account with the disabled flag set.
UserNames ==
    {"enterprise_admin", "acme_partner", "customer_user", "acme_readonly", "acme_disabled"}
USERS_DB ==
    [u \in UserNames |->
        CASE u = "enterprise_admin" ->
               [username |-> u, role |-> "admin", organization |-> ADMIN_ORG, disabled |-> FALSE]
          [] u = "acme_partner" ->
               [username |-> u, role |-> "partner", organization |-> ACME, disabled |-> FALSE]
          [] u = "customer_user" ->
               [username |-> u, role |-> "customer", organization |-> CUSTOMER, disabled |-> FALSE]
          [] u = "acme_readonly" ->
               [username |-> u, role |-> "readonly", organization |-> ACME, disabled |-> FALSE]
          [] u = "acme_disabled" ->
               [username |-> u, role |-> "partner", organization |-> ACME, disabled |-> TRUE]]

NoUser == [username |-> "", role |-> "", organization |-> "", disabled |-> TRUE]

\* A bearer token: the claims create_access_token signs, and whether the
\* signature verifies under SECRET_KEY.
create_access_token(data, issued_at) ==
    [sub |-> data.username, role |-> data.role, organization |-> data.organization,
     exp |-> issued_at + ACCESS_TOKEN_EXPIRE, iat |-> issued_at, sig_ok |-> TRUE]

\* jwt.decode: a bad signature or exp in the past is a JWTError (401); so is
\* a payload without "sub".
decode_access_token_noexp(token) ==
    IF ~token.sig_ok THEN [code |-> 401, username |-> ""]
    ELSE IF token.sub = "" THEN [code |-> 401, username |-> ""]
    ELSE [code |-> 200, username |-> token.sub]

decode_access_token(token) ==
    IF ~token.sig_ok \/ token.exp < now THEN [code |-> 401, username |-> ""]
    ELSE IF token.sub = "" THEN [code |-> 401, username |-> ""]
    ELSE [code |-> 200, username |-> token.sub]

get_current_user_from_token_fromClaims(token) ==
    LET token_data == decode_access_token(token) IN
    IF token_data.code # 200 THEN [code |-> 401, user |-> NoUser]
    ELSE IF token_data.username \notin DOMAIN USERS_DB THEN [code |-> 401, user |-> NoUser]
    ELSE IF USERS_DB[token_data.username].disabled THEN [code |-> 403, user |-> NoUser]
    ELSE [code |-> 200,
          user |-> [USERS_DB[token_data.username] EXCEPT !.role = token.role,
                                                         !.organization = token.organization]]

get_current_user_from_token(token) ==
    LET token_data == decode_access_token(token) IN
    IF token_data.code # 200 THEN [code |-> 401, user |-> NoUser]
    ELSE IF token_data.username \notin DOMAIN USERS_DB THEN [code |-> 401, user |-> NoUser]
    ELSE IF USERS_DB[token_data.username].disabled THEN [code |-> 403, user |-> NoUser]
    ELSE [code |-> 200, user |-> USERS_DB[token_data.username]]

\* RoleChecker(allowed_roles).__call__
RoleChecker(allowed_roles, token) ==
    LET auth == get_current_user_from_token(token) IN
    IF auth.code # 200 THEN auth
    ELSE IF auth.user.role \notin allowed_roles THEN [code |-> 403, user |-> NoUser]
    ELSE auth

require_admin_with_partner == {"admin", "partner"}
require_admin == {"admin"}
require_partner_with_customer == {"admin", "partner", "customer"}
require_partner == {"admin", "partner"}

check_organization_access(user, resource_organization) ==
    IF user.role = "admin" THEN TRUE
    ELSE user.organization = resource_organization

\* The tenant gate the routers write inline.
OrgAccessDenied_inverted(user, organization) ==
    user.role # "admin" /\ organization = user.organization
OrgAccessDenied_noAdminBypass(user, organization) ==
    organization # user.organization
OrgAccessDenied(user, organization) ==
    user.role # "admin" /\ organization # user.organization

\* ---------------------------------------------------------------- replies
NoBody == [none |-> TRUE]
Idle == [op |-> "idle", cred |-> None, id |-> None, args |-> None, code |-> 0, body |-> NoBody]
Fail(code) == [code |-> code, body |-> NoBody]
Ok(code, body) == [code |-> code, body |-> body]
Reply(op, cred, id, args, r) ==
    [op |-> op, cred |-> cred, id |-> id, args |-> args, code |-> r.code, body |-> r.body]

\* ----------------------------------------------------------------- stores
\* Identifiers are opaque prefixed random tokens: "net_<hex>",
\* "partner_<hex>", "ok_<device>_<suffix>"; the number stands for the random part.
NetworkIds == {<<"net", i>> : i \in 1..MaxNetworks}
PartnerIds == {<<"partner", i>> : i \in 1..MaxPartners}
EmptyMap == [x \in {} |-> None]
Without(f, x) == [y \in DOMAIN f \ {x} |-> f[y]]

\* response_model=NetworkResponse: the record is validated against
\* NetworkBase's field constraints when it is serialized; a record that
\* fails them is a 500 after the handler's work is committed.
NetworkResponse(code, network) ==
    IF /\ network.sla_uptime_target # None
       /\ network.sla_uptime_target[1] >= 0
       /\ network.sla_uptime_target[1] <= 100 * Scale
       /\ network.sla_latency_target # None
       /\ network.sla_latency_target[1] >= 0
    THEN Ok(code, network)
    ELSE Fail(500)

\* ------------------------------------------------------- network handlers
create_network(token, network, network_id) ==
    LET auth == RoleChecker(require_partner, token)
        user == auth.user
        denied == user.role # "admin" /\ network.organization # user.organization
        db_network == [organization |-> network.organization,
                       status |-> "active",
                       health_score |-> 100 * Scale,
                       sla_uptime_target |-> network.sla_uptime_target,
                       sla_latency_target |-> network.sla_latency_target]
        done == auth.code = 200 /\ ~denied
    IN /\ done => network_id \notin DOMAIN networks
       /\ resp' = Reply("create_network", token, IF done THEN network_id ELSE None, network,
                        IF auth.code # 200 THEN Fail(auth.code)
                        ELSE IF denied THEN Fail(403)
                        ELSE NetworkResponse(201, db_network))
       /\ networks' = IF done THEN networks @@ (network_id :> db_network) ELSE networks
       /\ UNCHANGED <<partners, telemetry, API_KEYS_DB, now, inflight>>

get_network(token, network_id) ==
    LET auth == get_current_user_from_token(token)
        user == auth.user
    IN /\ resp' = Reply("get_network", token, network_id, None,
                        IF auth.code # 200 THEN Fail(auth.code)
                        ELSE IF network_id \notin DOMAIN networks THEN Fail(404)
                        ELSE IF OrgAccessDenied(user, networks[network_id].organization)
                             THEN Fail(403)
                        ELSE NetworkResponse(200, networks[network_id]))
       /\ UNCHANGED <<networks, partners, telemetry, API_KEYS_DB, now, inflight>>

\* model_dump(exclude_unset=True) then setattr: a field of the update is
\* None when unset, <<v>> when set to v (v itself possibly None).
ApplyNetworkUpdate_movesTenant(network, network_update) ==
    [network EXCEPT
        !.organization = IF network_update.status = None THEN @ ELSE CUSTOMER,
        !.status = IF network_update.status = None THEN @ ELSE network_update.status[1]]
ApplyNetworkUpdate_writesScore(network, network_update) ==
    [network EXCEPT
        !.status = IF network_update.status = None THEN @ ELSE network_update.status[1],
        !.health_score =
            IF network_update.sla_latency_target = None THEN @
            ELSE network_update.sla_latency_target[1][1],
        !.sla_latency_target =
            IF network_update.sla_latency_target = None THEN @
            ELSE network_update.sla_latency_target[1]]
ApplyNetworkUpdate(network, network_update) ==
    [network EXCEPT
        !.status = IF network_update.status = None THEN @ ELSE network_update.status[1],
        !.sla_uptime_target =
            IF network_update.sla_uptime_target = None THEN @
            ELSE network_update.sla_uptime_target[1],
        !.sla_latency_target =
            IF network_update.sla_latency_target = None THEN @
            ELSE network_update.sla_latency_target[1]]

update_network(token, network_id, network_update) ==
    LET auth == RoleChecker(require_partner, token)
        user == auth.user
        found == network_id \in DOMAIN networks
        denied == OrgAccessDenied(user, networks[network_id].organization)
        done == auth.code = 200 /\ found /\ ~denied
        updated == ApplyNetworkUpdate(networks[network_id], network_update)
    IN /\ resp' = Reply("update_network", token, network_id, network_update,
                        IF auth.code # 200 THEN Fail(auth.code)
                        ELSE IF ~found THEN Fail(404)
                        ELSE IF denied THEN Fail(403)
                        ELSE NetworkResponse(200, updated))
       /\ networks' = IF done THEN [networks EXCEPT ![network_id] = updated] ELSE networks
       /\ UNCHANGED <<partners, telemetry, API_KEYS_DB, now, inflight>>

\* delete_network looking the network up before it checks the role.
delete_network_lookupFirst(token, network_id) ==
    LET auth == get_current_user_from_token(token)
        found == network_id \in DOMAIN networks
        allowed == auth.user.role \in require_admin
        done == auth.code = 200 /\ found /\ allowed
    IN /\ resp' = Reply("delete_network", token, network_id, None,
                        IF auth.code # 200 THEN Fail(auth.code)
                        ELSE IF ~found THEN Fail(404)
                        ELSE IF ~allowed THEN Fail(403)
                        ELSE Ok(204, NoBody))
       /\ networks' = IF done
                      THEN Without(networks, network_id)
                      ELSE networks
       /\ UNCHANGED <<partners, telemetry, API_KEYS_DB, now, inflight>>

delete_network(token, network_id) ==
    LET auth == RoleChecker(require_admin, token)
        found == network_id \in DOMAIN networks
        done == auth.code = 200 /\ found
    IN /\ resp' = Reply("delete_network", token, network_id, None,
                        IF auth.code # 200 THEN Fail(auth.code)
                        ELSE IF ~found THEN Fail(404)
                        ELSE Ok(204, NoBody))
       /\ networks' = IF done
                      THEN Without(networks, network_id)
                      ELSE networks
       /\ UNCHANGED <<partners, telemetry, API_KEYS_DB, now, inflight>>

list_networks(token, organization) ==
    LET auth == get_current_user_from_token(token)
        user == auth.user
        visible == {n \in DOMAIN networks :
                      IF user.role # "admin"
                      THEN networks[n].organization = user.organization
                      ELSE TruthyStr(organization) => networks[n].organization = organization}
    IN /\ resp' = Reply("list_networks", token, None, organization,
                        IF auth.code # 200 THEN Fail(auth.code)
                        ELSE IF \E n \in visible : NetworkResponse(200, networks[n]).code = 500
                             THEN Fail(500)
                        ELSE Ok(200, visible))
       /\ UNCHANGED <<networks, partners, telemetry, API_KEYS_DB, now, inflight>>

\* ------------------------------------------------------- partner handlers
onboard_partner(token, partner, partner_id) ==
    LET auth == RoleChecker(require_admin, token)
        db_partner == [organization_name |-> partner.organization_name,
                       status |-> "active",
                       api_access_enabled |-> TRUE]
        done == auth.code = 200
    IN /\ done => partner_id \notin DOMAIN partners
       /\ resp' = Reply("onboard_partner", token, IF done THEN partner_id ELSE None, partner,
                        IF auth.code # 200 THEN Fail(auth.code)
                        ELSE Ok(201, db_partner))
       /\ partners' = IF done THEN partners @@ (partner_id :> db_partner) ELSE partners
       /\ UNCHANGED <<networks, telemetry, API_KEYS_DB, now, inflight>>

list_partners(token) ==
    LET auth == RoleChecker(require_partner, token)
        user == auth.user
        visible == {p \in DOMAIN partners :
                      user.role # "admin" => partners[p].organization_name = user.organization}
    IN /\ resp' = Reply("list_partners", token, None, None,
                        IF auth.code # 200 THEN Fail(auth.code)
                        ELSE Ok(200, visible))
       /\ UNCHANGED <<networks, partners, telemetry, API_KEYS_DB, now, inflight>>

get_partner(token, partner_id) ==
    LET auth == RoleChecker(require_partner, token)
        user == auth.user
    IN /\ resp' = Reply("get_partner", token, partner_id, None,
                        IF auth.code # 200 THEN Fail(auth.code)
                        ELSE IF partner_id \notin DOMAIN partners THEN Fail(404)
                        ELSE IF OrgAccessDenied(user, partners[partner_id].organization_name)
                             THEN Fail(403)
                        ELSE Ok(200, partners[partner_id]))
       /\ UNCHANGED <<networks, partners, telemetry, API_KEYS_DB, now, inflight>>

ApplyPartnerUpdate(partner, partner_update) ==
    [partner EXCEPT
        !.organization_name =
            IF partner_update.organization_name = None THEN @
            ELSE partner_update.organization_name[1],
        !.status = IF partner_update.status = None THEN @ ELSE partner_update.status[1]]

update_partner(token, partner_id, partner_update) ==
    LET auth == RoleChecker(require_admin, token)
        found == partner_id \in DOMAIN partners
        done == auth.code = 200 /\ found
        updated == ApplyPartnerUpdate(partners[partner_id], partner_update)
    IN /\ resp' = Reply("update_partner", token, partner_id, partner_update,
                        IF auth.code # 200 THEN Fail(auth.code)
                        ELSE IF ~found THEN Fail(404)
                        ELSE Ok(200, updated))
       /\ partners' = IF done THEN [partners EXCEPT ![partner_id] = updated] ELSE partners
       /\ UNCHANGED <<networks, telemetry, API_KEYS_DB, now, inflight>>

suspend_partner(token, partner_id) ==
    LET auth == RoleChecker(require_admin, token)
        found == partner_id \in DOMAIN partners
        done == auth.code = 200 /\ found
        updated == [partners[partner_id] EXCEPT !.status = "suspended",
                                                !.api_access_enabled = FALSE]
    IN /\ resp' = Reply("suspend_partner", token, partner_id, None,
                        IF auth.code # 200 THEN Fail(auth.code)
                        ELSE IF ~found THEN Fail(404)
                        ELSE Ok(200, updated))
       /\ partners' = IF done THEN [partners EXCEPT ![partner_id] = updated] ELSE partners
       /\ UNCHANGED <<networks, telemetry, API_KEYS_DB, now, inflight>>

activate_partner(token, partner_id) ==
    LET auth == RoleChecker(require_admin, token)
        found == partner_id \in DOMAIN partners
        done == auth.code = 200 /\ found
        updated == [partners[partner_id] EXCEPT !.status = "active",
                                                !.api_access_enabled = TRUE]
    IN /\ resp' = Reply("activate_partner", token, partner_id, None,
                        IF auth.code # 200 THEN Fail(auth.code)
                        ELSE IF ~found THEN Fail(404)
                        ELSE Ok(200, updated))
       /\ partners' = IF done THEN [partners EXCEPT ![partner_id] = updated] ELSE partners
       /\ UNCHANGED <<networks, telemetry, API_KEYS_DB, now, inflight>>

delete_partner(token, partner_id) ==
    LET auth == RoleChecker(require_admin, token)
        found == partner_id \in DOMAIN partners
        done == auth.code = 200 /\ found
    IN /\ resp' = Reply("delete_partner", token, partner_id, None,
                        IF auth.code # 200 THEN Fail(auth.code)
                        ELSE IF ~found THEN Fail(404)
                        ELSE Ok(204, NoBody))
       /\ partners' = IF done THEN Without(partners, partner_id) ELSE partners
       /\ UNCHANGED <<networks, telemetry, API_KEYS_DB, now, inflight>>

\* ------------------------------------------------------------ device keys
\* The seeded keys, and one key whose active flag has been cleared.
SeededKeys ==
    (<<"ok", "device_001", 0>> :>
        [device_id |-> "device-001", organization |-> ACME, last_used |-> None, active |-> TRUE])
    @@ (<<"ok", "device_002", 0>> :>
        [device_id |-> "mobile-001", organization |-> CUSTOMER, last_used |-> None, active |-> TRUE])
    @@ (<<"ok", "sat_001", 0>> :>
        [device_id |-> "sat-001", organization |-> ACME, last_used |-> None, active |-> TRUE])
    @@ (<<"ok", "sat_002", 0>> :>
        [device_id |-> "sat-001", organization |-> ACME, last_used |-> None, active |-> FALSE])

\* secrets.token_urlsafe(16): a suffix no stored key carries.
FreshSuffixes_any == 1..MaxKeys
FreshSuffixes == {n \in 1..MaxKeys : \A k \in DOMAIN API_KEYS_DB : k[3] # n}

generate_api_key(device_id, organization, suffix) ==
    (<<"ok", device_id, suffix>> :>
        [device_id |-> device_id, organization |-> organization,
         last_used |-> None, active |-> TRUE]) @@ API_KEYS_DB

\* generate_partner_api_key without the api_access_enabled check.
generate_partner_api_key_noAccessCheck(token, partner_id, device_id, suffix) ==
    LET auth == RoleChecker(require_admin, token)
        found == partner_id \in DOMAIN partners
        done == auth.code = 200 /\ found
    IN /\ done => suffix \in FreshSuffixes
       /\ resp' = Reply("generate_partner_api_key", token, partner_id, device_id,
                        IF auth.code # 200 THEN Fail(auth.code)
                        ELSE IF ~found THEN Fail(404)
                        ELSE Ok(200, [partner_id |-> partner_id, device_id |-> device_id,
                                      api_key |-> <<"ok", device_id, suffix>>]))
       /\ API_KEYS_DB' = IF done
                         THEN generate_api_key(device_id, partners[partner_id].organization_name,
                                               suffix)
                         ELSE API_KEYS_DB
       /\ UNCHANGED <<networks, partners, telemetry, now, inflight>>

generate_partner_api_key(token, partner_id, device_id, suffix) ==
    LET auth == RoleChecker(require_admin, token)
        found == partner_id \in DOMAIN partners
        enabled == partners[partner_id].api_access_enabled
        done == auth.code = 200 /\ found /\ enabled
    IN /\ done => suffix \in FreshSuffixes
       /\ resp' = Reply("generate_partner_api_key", token, partner_id, device_id,
                        IF auth.code # 200 THEN Fail(auth.code)
                        ELSE IF ~found THEN Fail(404)
                        ELSE IF ~enabled THEN Fail(403)
                        ELSE Ok(200, [partner_id |-> partner_id, device_id |-> device_id,
                                      api_key |-> <<"ok", device_id, suffix>>]))
       /\ API_KEYS_DB' = IF done
                         THEN generate_api_key(device_id, partners[partner_id].organization_name,
                                               suffix)
                         ELSE API_KEYS_DB
       /\ UNCHANGED <<networks, partners, telemetry, now, inflight>>

\* validate_api_key behind get_api_key_data: the header is None when absent.
get_api_key_data_ignoresActive(api_key) ==
    IF api_key = None \/ api_key[1] \notin DOMAIN API_KEYS_DB THEN [code |-> 401, keys |-> API_KEYS_DB]
    ELSE [code |-> 200,
          keys |-> [API_KEYS_DB EXCEPT ![api_key[1]].last_used = Some(now)]]

get_api_key_data(api_key) ==
    IF api_key = None \/ api_key[1] \notin DOMAIN API_KEYS_DB THEN [code |-> 401, keys |-> API_KEYS_DB]
    ELSE IF ~API_KEYS_DB[api_key[1]].active THEN [code |-> 401, keys |-> API_KEYS_DB]
    ELSE [code |-> 200,
          keys |-> [API_KEYS_DB EXCEPT ![api_key[1]].last_used = Some(now)]]

\* ----------------------------------------------------- telemetry handlers
\* telemetry.device_id != api_key_data.device_id
DeviceIdMismatch_byOrganization(telemetry_in, api_key_data) ==
    telemetry_in.organization # api_key_data.organization
DeviceIdMismatch(telemetry_in, api_key_data) ==
    telemetry_in.device_id # api_key_data.device_id

\* telemetry.organization = api_key_data.organization; Telemetry(**model_dump())
StoredReading_asDeclared(telemetry_in, api_key_data) == telemetry_in
StoredReading(telemetry_in, api_key_data) ==
    [telemetry_in EXCEPT !.organization = api_key_data.organization]

send_telemetry(api_key, telemetry_in) ==
    LET key == get_api_key_data(api_key)
        api_key_data == API_KEYS_DB[api_key[1]]
        mismatch == DeviceIdMismatch(telemetry_in, api_key_data)
        done == key.code = 200 /\ ~mismatch
        db_telemetry == StoredReading(telemetry_in, api_key_data)
    IN /\ done => Len(telemetry) < MaxReadings
       /\ resp' = Reply("send_telemetry", api_key, telemetry_in.device_id, telemetry_in,
                        IF key.code # 200 THEN Fail(key.code)
                        ELSE IF mismatch THEN Fail(403)
                        ELSE Ok(201, db_telemetry))
       /\ API_KEYS_DB' = key.keys
       /\ telemetry' = IF done THEN Append(telemetry, db_telemetry) ELSE telemetry
       /\ UNCHANGED <<networks, partners, now, inflight>>

\* The loop of send_telemetry_batch: the records it adds, in order.
RECURSIVE BatchCreated_all(_, _)
BatchCreated_all(batch, api_key_data) ==
    IF batch = <<>> THEN <<>>
    ELSE <<StoredReading(Head(batch), api_key_data)>>
         \o BatchCreated_all(Tail(batch), api_key_data)

RECURSIVE BatchCreated(_, _)
BatchCreated(batch, api_key_data) ==
    IF batch = <<>> THEN <<>>
    ELSE (IF DeviceIdMismatch(Head(batch), api_key_data)
          THEN <<>>
          ELSE <<StoredReading(Head(batch), api_key_data)>>)
         \o BatchCreated(Tail(batch), api_key_data)

send_telemetry_batch(api_key, batch) ==
    LET key == get_api_key_data(api_key)
        api_key_data == API_KEYS_DB[api_key[1]]
        created == BatchCreated(batch, api_key_data)
        done == key.code = 200
    IN /\ done => Len(telemetry) + Len(created) <= MaxReadings
       /\ resp' = Reply("send_telemetry_batch", api_key, None, batch,
                        IF key.code # 200 THEN Fail(key.code)
                        ELSE Ok(201, [records_submitted |-> Len(batch),
                                      records_created |-> Len(created)]))
       /\ API_KEYS_DB' = key.keys
       /\ telemetry' = IF done THEN telemetry \o created ELSE telemetry
       /\ UNCHANGED <<networks, partners, now, inflight>>

\* Rows are named by their place in the table.
Rows == 1..Len(telemetry)
MaxOf(S) == CHOOSE x \in S : \A y \in S : y <= x
RECURSIVE SumOf(_, _)
SumOf(f, S) == IF S = {} THEN 0 ELSE LET x == CHOOSE y \in S : TRUE IN f[x] + SumOf(f, S \ {x})

\* The orders ORDER BY timestamp can return the rows of S in: rows with
\* equal timestamps come in an order the database chooses.
OrderedByTimestamp(S, descending) ==
    {order \in [1..Cardinality(S) -> S] :
        /\ \A i, j \in 1..Cardinality(S) : i # j => order[i] # order[j]
        /\ \A i, j \in 1..Cardinality(S) :
              i < j => IF descending
                       THEN telemetry[order[i]].timestamp >= telemetry[order[j]].timestamp
                       ELSE telemetry[order[i]].timestamp <= telemetry[order[j]].timestamp}

\* .offset(offset).limit(limit)
Page(order, offset, limit) ==
    [i \in 1..Max(0, Min(limit, Len(order) - offset)) |-> telemetry[order[offset + i]]]

\* query_telemetry with the organization parameter applied whenever it is
\* given, the caller's own organization otherwise.
query_telemetry_filterFirst(token, device_id, organization, status, start_time, end_time, limit, offset) ==
    LET auth == get_current_user_from_token(token)
        user == auth.user
        matching == {r \in Rows :
            /\ IF TruthyStr(organization) THEN telemetry[r].organization = organization
               ELSE user.role # "admin" => telemetry[r].organization = user.organization
            /\ TruthyStr(device_id) => telemetry[r].device_id = device_id
            /\ TruthyStr(status) => telemetry[r].status = status
            /\ start_time # None => telemetry[r].timestamp >= start_time[1]
            /\ end_time # None => telemetry[r].timestamp <= end_time[1]}
        args == [device_id |-> device_id, organization |-> organization, status |-> status,
                 start_time |-> start_time, end_time |-> end_time,
                 limit |-> limit, offset |-> offset]
    IN /\ IF auth.code # 200
          THEN resp' = Reply("query_telemetry", token, None, args, Fail(auth.code))
          ELSE \E order \in OrderedByTimestamp(matching, TRUE) :
                  resp' = Reply("query_telemetry", token, None, args,
                                Ok(200, Page(order, offset, limit)))
       /\ UNCHANGED <<networks, partners, telemetry, API_KEYS_DB, now, inflight>>

query_telemetry(token, device_id, organization, status, start_time, end_time, limit, offset) ==
    LET auth == get_current_user_from_token(token)
        user == auth.user
        matching == {r \in Rows :
            /\ IF user.role # "admin" THEN telemetry[r].organization = user.organization
               ELSE TruthyStr(organization) => telemetry[r].organization = organization
            /\ TruthyStr(device_id) => telemetry[r].device_id = device_id
            /\ TruthyStr(status) => telemetry[r].status = status
            /\ start_time # None => telemetry[r].timestamp >= start_time[1]
            /\ end_time # None => telemetry[r].timestamp <= end_time[1]}
        args == [device_id |-> device_id, organization |-> organization, status |-> status,
                 start_time |-> start_time, end_time |-> end_time,
                 limit |-> limit, offset |-> offset]
    IN /\ IF auth.code # 200
          THEN resp' = Reply("query_telemetry", token, None, args, Fail(auth.code))
          ELSE \E order \in OrderedByTimestamp(matching, TRUE) :
                  resp' = Reply("query_telemetry", token, None, args,
                                Ok(200, Page(order, offset, limit)))
       /\ UNCHANGED <<networks, partners, telemetry, API_KEYS_DB, now, inflight>>

\* The rows of get_latest_telemetry: the subquery groups the rows the caller
\* may see by device; the join is over the whole table.
LatestRows(user) ==
    LET visible == {r \in Rows :
                      user.role # "admin" => telemetry[r].organization = user.organization}
        max_timestamp(d) ==
            MaxOf({telemetry[r].timestamp : r \in {v \in visible : telemetry[v].device_id = d}})
    IN {r \in Rows :
          /\ \E v \in visible : telemetry[v].device_id = telemetry[r].device_id
          /\ telemetry[r].timestamp = max_timestamp(telemetry[r].device_id)}

\* A result whose order the query leaves open, listed in table order.
RowsInTableOrder(S) ==
    LET keep(r) == r \in S
        RECURSIVE pick(_)
        pick(i) == IF i > Len(telemetry) THEN <<>>
                   ELSE (IF keep(i) THEN <<telemetry[i]>> ELSE <<>>) \o pick(i + 1)
    IN pick(1)

get_latest_telemetry(token) ==
    LET auth == get_current_user_from_token(token)
    IN /\ resp' = Reply("get_latest_telemetry", token, None, None,
                        IF auth.code # 200 THEN Fail(auth.code)
                        ELSE Ok(200, RowsInTableOrder(LatestRows(auth.user))))
       /\ UNCHANGED <<networks, partners, telemetry, API_KEYS_DB, now, inflight>>

get_device_latest(token, device_id) ==
    LET auth == get_current_user_from_token(token)
        user == auth.user
        matching == {r \in Rows :
            /\ telemetry[r].device_id = device_id
            /\ user.role # "admin" => telemetry[r].organization = user.organization}
    IN /\ IF auth.code # 200
          THEN resp' = Reply("get_device_latest", token, device_id, None, Fail(auth.code))
          ELSE IF matching = {}
          THEN resp' = Reply("get_device_latest", token, device_id, None, Fail(404))
          ELSE \E order \in OrderedByTimestamp(matching, TRUE) :
                  resp' = Reply("get_device_latest", token, device_id, None,
                                Ok(200, telemetry[order[1]]))
       /\ UNCHANGED <<networks, partners, telemetry, API_KEYS_DB, now, inflight>>

get_device_history(token, device_id, hours) ==
    LET auth == get_current_user_from_token(token)
        user == auth.user
        start_time == now - hours
        matching == {r \in Rows :
            /\ telemetry[r].device_id = device_id
            /\ telemetry[r].timestamp >= start_time
            /\ user.role # "admin" => telemetry[r].organization = user.organization}
    IN /\ IF auth.code # 200
          THEN resp' = Reply("get_device_history", token, device_id, hours, Fail(auth.code))
          ELSE \E order \in OrderedByTimestamp(matching, FALSE) :
                  resp' = Reply("get_device_history", token, device_id, hours,
                                Ok(200, Page(order, 0, Len(order))))
       /\ UNCHANGED <<networks, partners, telemetry, API_KEYS_DB, now, inflight>>

\* delete_device_telemetry letting a tenant's own principal purge the
\* tenant's readings of the device.
delete_device_telemetry_ownTenant(token, device_id) ==
    LET auth == get_current_user_from_token(token)
        user == auth.user
        allowed == auth.code = 200
        kept(r) == \/ r.device_id # device_id
                   \/ user.role # "admin" /\ r.organization # user.organization
        deleted_count == Len(telemetry) - Len(SelectSeq(telemetry, kept))
    IN /\ resp' = Reply("delete_device_telemetry", token, device_id, None,
                        IF auth.code # 200 THEN Fail(auth.code)
                        ELSE IF deleted_count = 0 THEN Fail(404)
                        ELSE Ok(204, NoBody))
       /\ telemetry' = IF allowed THEN SelectSeq(telemetry, kept) ELSE telemetry
       /\ UNCHANGED <<networks, partners, API_KEYS_DB, now, inflight>>

delete_device_telemetry(token, device_id) ==
    LET auth == get_current_user_from_token(token)
        user == auth.user
        allowed == auth.code = 200 /\ user.role = "admin"
        kept(r) == r.device_id # device_id
        deleted_count == Len(telemetry) - Len(SelectSeq(telemetry, kept))
    IN /\ resp' = Reply("delete_device_telemetry", token, device_id, None,
                        IF auth.code # 200 THEN Fail(auth.code)
                        ELSE IF user.role # "admin" THEN Fail(403)
                        ELSE IF deleted_count = 0 THEN Fail(404)
                        ELSE Ok(204, NoBody))
       /\ telemetry' = IF allowed THEN SelectSeq(telemetry, kept) ELSE telemetry
       /\ UNCHANGED <<networks, partners, API_KEYS_DB, now, inflight>>

\* GET /v1/auth/me
get_current_user(token) ==
    LET auth == get_current_user_from_token(token)
    IN /\ resp' = Reply("get_current_user", token, None, None,
                        IF auth.code # 200 THEN Fail(auth.code) ELSE Ok(200, auth.user))
       /\ UNCHANGED <<networks, partners, telemetry, API_KEYS_DB, now, inflight>>

\* ------------------------------------------------------ health and SLA
\* func.avg over a column: the mean of the non-null values, None when
\* there is none.
Avg(rows, field) ==
    LET with_value == {r \in rows : telemetry[r][field] # None}
        value == [r \in with_value |-> telemetry[r][field][1]]
    IN IF with_value = {} THEN None
       ELSE Some(SumOf(value, with_value) \div Cardinality(with_value))

\* The rows both queries of get_network_health filter on.
HealthWindow_allTenants(network, hours) ==
    {r \in Rows : telemetry[r].timestamp >= now - hours}
HealthWindow(network, hours) ==
    {r \in Rows : /\ telemetry[r].organization = network.organization
                  /\ telemetry[r].timestamp >= now - hours}

ActiveIn(rows) == {r \in rows : telemetry[r].status = "active"}

TelemetryStats(rows) ==
    [avg_latency |-> Avg(rows, "latency_ms"),
     avg_packet_loss |-> Avg(rows, "packet_loss_percent"),
     total_readings |-> Cardinality(rows)]

UptimePercent(active_readings, total_readings) ==
    IF total_readings > 0 THEN (active_readings * 100 * Scale) \div total_readings ELSE 0

\* Comparing a number with a target that an update set to None raises
\* TypeError: the request ends in a 500 before anything is written.
HealthRaises(network, stats) ==
    \/ Truthy(stats.avg_latency) /\ network.sla_latency_target = None
    \/ network.sla_uptime_target = None

HealthScore_noLatencyGuard(network, stats, uptime_percent) ==
    LET h0 == 100 * Scale
        h1 == IF Truthy(stats.avg_latency)
              THEN h0 - Min(30 * Scale,
                            (stats.avg_latency[1] - network.sla_latency_target[1]) \div 10)
              ELSE h0
        h2 == IF Truthy(stats.avg_packet_loss)
              THEN h1 - Min(30 * Scale, stats.avg_packet_loss[1] * 3)
              ELSE h1
        h3 == IF uptime_percent < network.sla_uptime_target[1]
              THEN h2 - Min(40 * Scale, (network.sla_uptime_target[1] - uptime_percent) * 2)
              ELSE h2
    IN Max(0, h3)

HealthScore_fromStored(network, stats, uptime_percent) ==
    LET h0 == network.health_score
        h1 == IF /\ Truthy(stats.avg_latency)
                 /\ stats.avg_latency[1] > network.sla_latency_target[1]
              THEN h0 - Min(30 * Scale,
                            (stats.avg_latency[1] - network.sla_latency_target[1]) \div 10)
              ELSE h0
        h2 == IF Truthy(stats.avg_packet_loss)
              THEN h1 - Min(30 * Scale, stats.avg_packet_loss[1] * 3)
              ELSE h1
        h3 == IF uptime_percent < network.sla_uptime_target[1]
              THEN h2 - Min(40 * Scale, (network.sla_uptime_target[1] - uptime_percent) * 2)
              ELSE h2
    IN Max(0, h3)

HealthScore(network, stats, uptime_percent) ==
    LET h0 == 100 * Scale
        h1 == IF /\ Truthy(stats.avg_latency)
                 /\ stats.avg_latency[1] > network.sla_latency_target[1]
              THEN h0 - Min(30 * Scale,
                            (stats.avg_latency[1] - network.sla_latency_target[1]) \div 10)
              ELSE h0
        h2 == IF Truthy(stats.avg_packet_loss)
              THEN h1 - Min(30 * Scale, stats.avg_packet_loss[1] * 3)
              ELSE h1
        h3 == IF uptime_percent < network.sla_uptime_target[1]
              THEN h2 - Min(40 * Scale, (network.sla_uptime_target[1] - uptime_percent) * 2)
              ELSE h2
    IN Max(0, h3)

RoundOrNone(x) == IF Truthy(x) THEN Some(Round2(x[1])) ELSE None

\* NetworkHealth(...): health_score is Field(ge=0, le=100); a value outside
\* raises ValidationError, a 500 after the commit.
NetworkHealth(network, health_score, stats, uptime_percent) ==
    IF Round2(health_score) >= 0 /\ Round2(health_score) <= 100 * Scale
    THEN Ok(200, [organization |-> network.organization,
                  health_score |-> Round2(health_score),
                  status |-> network.status,
                  avg_latency_ms |-> RoundOrNone(stats.avg_latency),
                  avg_packet_loss_percent |-> RoundOrNone(stats.avg_packet_loss),
                  uptime_percent |-> Round2(uptime_percent)])
    ELSE Fail(500)

\* network.health_score = round(health_score, 2); db.commit()
WriteHealthScore_byOrganization(network_id, health_score) ==
    [n \in DOMAIN networks |->
        IF networks[n].organization = networks[network_id].organization
        THEN [networks[n] EXCEPT !.health_score = Round2(health_score)]
        ELSE networks[n]]
WriteHealthScore(network_id, health_score) ==
    [networks EXCEPT ![network_id].health_score = Round2(health_score)]

get_network_health(token, network_id, hours) ==
    LET auth == get_current_user_from_token(token)
        user == auth.user
        found == network_id \in DOMAIN networks
        network == networks[network_id]
        denied == OrgAccessDenied(user, network.organization)
        rows == HealthWindow(network, hours)
        stats == TelemetryStats(rows)
        uptime_percent == UptimePercent(Cardinality(ActiveIn(rows)), stats.total_readings)
        raises == HealthRaises(network, stats)
        health_score == HealthScore(network, stats, uptime_percent)
        done == auth.code = 200 /\ found /\ ~denied /\ ~raises
    IN /\ resp' = Reply("get_network_health", token, network_id, hours,
                        IF auth.code # 200 THEN Fail(auth.code)
                        ELSE IF ~found THEN Fail(404)
                        ELSE IF denied THEN Fail(403)
                        ELSE IF raises THEN Fail(500)
                        ELSE NetworkHealth(network, health_score, stats, uptime_percent))
       /\ networks' = IF done THEN WriteHealthScore(network_id, health_score) ELSE networks
       /\ UNCHANGED <<partners, telemetry, API_KEYS_DB, now, inflight>>

\* ------------------------------------------- health queries in flight
\* Health queries served by several workers over one database: each is a
\* sequence of statements (load the network, aggregate, count the active
\* rows, write the score), and statements of different queries and telemetry
\* inserts interleave.  inflight.query holds each query's position and
\* locals; inflight.writes lists the queries in the order their UPDATE was
\* committed.
MaxQueries == 2
QueryIds == {<<"query", i>> : i \in 1..MaxQueries}
NoStats == [avg_latency |-> None, avg_packet_loss |-> None, total_readings |-> 0]
NotStarted ==
    [pc |-> "idle", token |-> None, network_id |-> None, start_time |-> 0,
     network |-> None, stats |-> NoStats, active_readings |-> 0,
     health_score |-> 0, code |-> 0]
NoQueries == [query |-> [q \in QueryIds |-> NotStarted], writes |-> <<>>]

\* The rows the two aggregate statements filter on.
WindowSince(organization, start_time) ==
    {r \in Rows : /\ telemetry[r].organization = organization
                  /\ telemetry[r].timestamp >= start_time}

\* Dependencies, the network lookup, the organization check and start_time.
HealthLoad(q, token, network_id, hours) ==
    LET auth == get_current_user_from_token(token)
        found == network_id \in DOMAIN networks
        network == networks[network_id]
        denied == OrgAccessDenied(auth.user, network.organization)
        code == IF auth.code # 200 THEN auth.code
                ELSE IF ~found THEN 404
                ELSE IF denied THEN 403
                ELSE 0
    IN /\ inflight.query[q].pc = "idle"
       /\ inflight' =
             [inflight EXCEPT !.query[q] =
                 IF code # 0
                 THEN [@ EXCEPT !.pc = "done", !.token = token,
                                !.network_id = network_id, !.code = code]
                 ELSE [@ EXCEPT !.pc = "loaded", !.token = token,
                                !.network_id = network_id,
                                !.start_time = now - hours, !.network = network]]
       /\ UNCHANGED <<networks, partners, telemetry, API_KEYS_DB, now, resp>>

\* The aggregate statement: averages and count.
HealthAggregate(q) ==
    LET query == inflight.query[q]
    IN /\ query.pc = "loaded"
       /\ inflight' =
             [inflight EXCEPT !.query[q].pc = "aggregated",
                              !.query[q].stats =
                                  TelemetryStats(WindowSince(query.network.organization,
                                                             query.start_time))]
       /\ UNCHANGED <<networks, partners, telemetry, API_KEYS_DB, now, resp>>

\* The count of active rows.
HealthCountActive(q) ==
    LET query == inflight.query[q]
    IN /\ query.pc = "aggregated"
       /\ inflight' =
             [inflight EXCEPT !.query[q].pc = "counted",
                              !.query[q].active_readings =
                                  Cardinality(ActiveIn(WindowSince(query.network.organization,
                                                                   query.start_time)))]
       /\ UNCHANGED <<networks, partners, telemetry, API_KEYS_DB, now, resp>>

\* The score, the write and the reply.  The session emits the UPDATE of
\* health_score only when the value differs from the one it loaded.
HealthCommit_optimistic(q) ==
    LET query == inflight.query[q]
        uptime_percent == UptimePercent(query.active_readings, query.stats.total_readings)
        raises == HealthRaises(query.network, query.stats)
        health_score == HealthScore(query.network, query.stats, uptime_percent)
        stale == networks[query.network_id].health_score # query.network.health_score
        updates == /\ ~raises
                   /\ ~stale
                   /\ Round2(health_score) # query.network.health_score
        reply == NetworkHealth(query.network, health_score, query.stats, uptime_percent)
    IN /\ query.pc = "counted"
       /\ inflight' =
             [inflight EXCEPT
                 !.query[q].pc = "done",
                 !.query[q].health_score = IF raises THEN 0 ELSE Round2(health_score),
                 !.query[q].code = IF raises THEN 500 ELSE IF stale THEN 409 ELSE reply.code,
                 !.writes = IF updates THEN Append(@, q) ELSE @]
       /\ networks' = IF updates THEN WriteHealthScore(query.network_id, health_score)
                      ELSE networks
       /\ UNCHANGED <<partners, telemetry, API_KEYS_DB, now, resp>>

HealthCommit(q) ==
    LET query == inflight.query[q]
        uptime_percent == UptimePercent(query.active_readings, query.stats.total_readings)
        raises == HealthRaises(query.network, query.stats)
        health_score == HealthScore(query.network, query.stats, uptime_percent)
        updates == /\ ~raises
                   /\ Round2(health_score) # query.network.health_score
        reply == NetworkHealth(query.network, health_score, query.stats, uptime_percent)
    IN /\ query.pc = "counted"
       /\ inflight' =
             [inflight EXCEPT
                 !.query[q].pc = "done",
                 !.query[q].health_score = IF raises THEN 0 ELSE Round2(health_score),
                 !.query[q].code = IF raises THEN 500 ELSE reply.code,
                 !.writes = IF updates THEN Append(@, q) ELSE @]
       /\ networks' = IF updates THEN WriteHealthScore(query.network_id, health_score)
                      ELSE networks
       /\ UNCHANGED <<partners, telemetry, API_KEYS_DB, now, resp>>

\* all(sla_compliance.values()): a flag that is None counts as false.
SlaStatus(uptime_compliance, latency_compliance) ==
    IF uptime_compliance /\ latency_compliance = Some(TRUE) THEN "COMPLIANT"
    ELSE "NON_COMPLIANT"

get_network_sla_report(token, network_id, start_date, end_date) ==
    LET auth == get_current_user_from_token(token)
        user == auth.user
        found == network_id \in DOMAIN networks
        network == networks[network_id]
        denied == OrgAccessDenied(user, network.organization)
        period_end == IF end_date = None THEN now ELSE end_date[1]
        period_start == IF start_date = None THEN period_end - SlaDefaultDays ELSE start_date[1]
        rows == {r \in Rows : /\ telemetry[r].organization = network.organization
                              /\ telemetry[r].timestamp >= period_start
                              /\ telemetry[r].timestamp <= period_end}
        total_readings == Cardinality(rows)
        uptime_percent == (Cardinality(ActiveIn(rows)) * 100 * Scale) \div total_readings
        avg_latency == Avg(rows, "latency_ms")
        raises == \/ network.sla_uptime_target = None
                  \/ Truthy(avg_latency) /\ network.sla_latency_target = None
        uptime_compliance == uptime_percent >= network.sla_uptime_target[1]
        latency_compliance == IF Truthy(avg_latency)
                              THEN Some(avg_latency[1] <= network.sla_latency_target[1])
                              ELSE None
    IN /\ resp' = Reply("get_network_sla_report", token, network_id,
                        [start_date |-> start_date, end_date |-> end_date],
                        IF auth.code # 200 THEN Fail(auth.code)
                        ELSE IF ~found THEN Fail(404)
                        ELSE IF denied THEN Fail(403)
                        ELSE IF total_readings = 0
                             THEN Ok(200, [message |-> "No telemetry data available for this period"])
                        ELSE IF raises THEN Fail(500)
                        ELSE Ok(200, [organization |-> network.organization,
                                      total_readings |-> total_readings,
                                      uptime_percent |-> Round2(uptime_percent),
                                      avg_latency_ms |-> RoundOrNone(avg_latency),
                                      uptime_compliance |-> uptime_compliance,
                                      latency_compliance |-> latency_compliance,
                                      status |-> SlaStatus(uptime_compliance,
                                                           latency_compliance)]))
       /\ UNCHANGED <<networks, partners, telemetry, API_KEYS_DB, now, inflight>>

get_partner_integration_status(token, partner_id) ==
    LET auth == RoleChecker(require_partner, token)
        user == auth.user
        found == partner_id \in DOMAIN partners
        partner == partners[partner_id]
        recent_telemetry_count ==
            Cardinality({r \in Rows : /\ telemetry[r].organization = partner.organization_name
                                      /\ telemetry[r].timestamp >= now - 24})
    IN /\ resp' = Reply("get_partner_integration_status", token, partner_id, None,
                        IF auth.code # 200 THEN Fail(auth.code)
                        ELSE IF ~found THEN Fail(404)
                        ELSE IF OrgAccessDenied(user, partner.organization_name) THEN Fail(403)
                        ELSE Ok(200, [organization |-> partner.organization_name,
                                      status |-> partner.status,
                                      api_access_enabled |-> partner.api_access_enabled,
                                      integration_active |-> recent_telemetry_count > 0,
                                      last_24h_telemetry_count |-> recent_telemetry_count]))
       /\ UNCHANGED <<networks, partners, telemetry, API_KEYS_DB, now, inflight>>

get_telemetry_summary(token) ==
    LET auth == get_current_user_from_token(token)
        user == auth.user
        visible == {r \in Rows :
                      user.role # "admin" => telemetry[r].organization = user.organization}
        total_devices == Cardinality({telemetry[r].device_id : r \in visible})
        active_devices == Cardinality({telemetry[r].device_id : r \in ActiveIn(visible)})
        recent == {r \in visible : telemetry[r].timestamp >= now - 24}
    IN /\ resp' = Reply("get_telemetry_summary", token, None, None,
                        IF auth.code # 200 THEN Fail(auth.code)
                        ELSE Ok(200, [organization |-> user.organization,
                                      total_devices |-> total_devices,
                                      active_devices |-> active_devices,
                                      offline_devices |-> total_devices - active_devices,
                                      avg_latency_ms |-> RoundOrNone(Avg(recent, "latency_ms")),
                                      avg_packet_loss_percent |->
                                          RoundOrNone(Avg(recent, "packet_loss_percent"))]))
       /\ UNCHANGED <<networks, partners, telemetry, API_KEYS_DB, now, inflight>>

\* The clock; a reply does not outlive the instant it was given at.
Tick ==
    /\ now < MaxTime
    /\ now' = now + 1
    /\ resp' = Idle
    /\ UNCHANGED <<networks, partners, telemetry, API_KEYS_DB, inflight>>

\* The request is over: get_db closes the session.
Respond ==
    /\ resp.op # "idle"
    /\ resp' = Idle
    /\ UNCHANGED <<networks, partners, telemetry, API_KEYS_DB, now, inflight>>

\* ------------------------------------------------------------- the inputs
\* Tokens the login endpoint issued when the clock starts, two it issued one
\* hour earlier, a token for a subject the user store does not hold, and a
\* token whose signature does not verify.
UnknownSubjectToken ==
    create_access_token([username |-> "former_user", role |-> "partner", organization |-> ACME], 0)
ForgedToken == [create_access_token(USERS_DB["enterprise_admin"], 0) EXCEPT !.sig_ok = FALSE]
\* A signed token whose role and organization claims are not the stored ones.
StaleClaimsToken ==
    create_access_token([username |-> "customer_user", role |-> "admin",
                         organization |-> ADMIN_ORG], 0)
FreshTokens == {create_access_token(USERS_DB[u], 0) : u \in UserNames}
AgingTokens ==
    {create_access_token(USERS_DB[u], 0 - ACCESS_TOKEN_EXPIRE) :
        u \in {"enterprise_admin", "acme_partner"}}
Tokens ==
    FreshTokens \cup AgingTokens \cup {UnknownSubjectToken, ForgedToken, StaleClaimsToken}

Devices == {"device-001", "mobile-001"}
Ready == resp.op = "idle"

\* The tables live in the database file and outlive the process; the key store
\* is rebuilt from its seed at every start.  Here the gateway starts on a
\* table holding two readings the seeded keys stored in an earlier run.
PersistedReadings ==
    << [device_id |-> "device-001", organization |-> ACME, timestamp |-> -1,
        latency_ms |-> Some(120000), packet_loss_percent |-> Some(500), status |-> "active"],
       [device_id |-> "mobile-001", organization |-> CUSTOMER, timestamp |-> -1,
        latency_ms |-> None, packet_loss_percent |-> None, status |-> "offline"] >>

Init ==
    /\ networks = EmptyMap
    /\ partners = EmptyMap
    /\ telemetry = PersistedReadings
    /\ API_KEYS_DB = SeededKeys
    /\ now = 0
    /\ resp = Idle
    /\ inflight = NoQueries

\* The gateway as its bearer-authenticated callers drive it.
NetworkCreates ==
    [organization : Organizations,
     sla_uptime_target : {Some(99900)}, sla_latency_target : {Some(100000)}]
NetworkUpdates ==
    {[status |-> Some("maintenance"), sla_uptime_target |-> None,
      sla_latency_target |-> Some(Some(-50000))]}
PartnerCreates == [organization_name : Organizations]
PartnerUpdates == {[organization_name |-> Some(CUSTOMER), status |-> Some("pending")]}

Next ==
    \/ \E t \in Tokens, n \in NetworkCreates, id \in NetworkIds :
          Ready /\ create_network(t, n, id)
    \/ \E t \in Tokens, o \in {"", ACME} : Ready /\ list_networks(t, o)
    \/ \E t \in Tokens, id \in NetworkIds : Ready /\ get_network(t, id)
    \/ \E t \in Tokens, id \in NetworkIds, u \in NetworkUpdates :
          Ready /\ update_network(t, id, u)
    \/ \E t \in Tokens, id \in NetworkIds : Ready /\ delete_network(t, id)
    \/ \E t \in Tokens, id \in NetworkIds : Ready /\ get_network_health(t, id, 24)
    \/ \E t \in Tokens, id \in NetworkIds : Ready /\ get_network_sla_report(t, id, None, None)
    \/ \E t \in Tokens, p \in PartnerCreates, id \in PartnerIds :
          Ready /\ onboard_partner(t, p, id)
    \/ \E t \in Tokens : Ready /\ list_partners(t)
    \/ \E t \in Tokens, id \in PartnerIds : Ready /\ get_partner(t, id)
    \/ \E t \in Tokens, id \in PartnerIds, u \in PartnerUpdates :
          Ready /\ update_partner(t, id, u)
    \/ \E t \in Tokens, id \in PartnerIds : Ready /\ suspend_partner(t, id)
    \/ \E t \in Tokens, id \in PartnerIds : Ready /\ activate_partner(t, id)
    \/ \E t \in Tokens, id \in PartnerIds : Ready /\ delete_partner(t, id)
    \/ \E t \in Tokens, id \in PartnerIds, k \in 1..MaxKeys :
          Ready /\ generate_partner_api_key(t, id, "sat-001", k)
    \/ \E t \in Tokens, id \in PartnerIds : Ready /\ get_partner_integration_status(t, id)
    \/ \E t \in Tokens, o \in {"", CUSTOMER} :
          Ready /\ query_telemetry(t, "", o, "", None, None, 100, 0)
    \/ \E t \in Tokens : Ready /\ get_latest_telemetry(t)
    \/ \E t \in Tokens : Ready /\ get_device_latest(t, "mobile-001")
    \/ \E t \in Tokens : Ready /\ get_device_history(t, "mobile-001", 24)
    \/ \E t \in Tokens : Ready /\ get_telemetry_summary(t)
    \/ \E t \in Tokens : Ready /\ delete_device_telemetry(t, "mobile-001")
    \/ \E t \in Tokens : Ready /\ get_current_user(t)
    \/ Ready /\ Tick
    \/ Respond

Spec == Init /\ [][Next]_vars

\* Devices feeding the telemetry table, with an administrator who can purge it.
AdminToken == create_access_token(USERS_DB["enterprise_admin"], 0)
PartnerToken == create_access_token(USERS_DB["acme_partner"], 0)
PresentedKeys ==
    {None, Some(<<"ok", "unknown", 0>>), Some(<<"ok", "device_001", 0>>),
     Some(<<"ok", "device_002", 0>>), Some(<<"ok", "sat_002", 0>>)}
IngestReadings ==
    [device_id : Devices, organization : Organizations, timestamp : {now},
     latency_ms : {Some(120000)}, packet_loss_percent : {Some(500)},
     status : {"active"}]
Batches(S) == UNION {[1..n -> S] : n \in 0..MaxBatch}

InitIngest ==
    /\ networks = EmptyMap
    /\ partners = EmptyMap
    /\ telemetry = <<>>
    /\ API_KEYS_DB = SeededKeys
    /\ now = 0
    /\ resp = Idle
    /\ inflight = NoQueries

NextIngest ==
    \/ \E k \in PresentedKeys, r \in IngestReadings : Ready /\ send_telemetry(k, r)
    \/ \E k \in PresentedKeys, b \in Batches(IngestReadings) :
          Ready /\ send_telemetry_batch(k, b)
    \/ \E t \in {AdminToken, PartnerToken}, d \in Devices :
          Ready /\ delete_device_telemetry(t, d)
    \/ Ready /\ Tick
    \/ Respond

SpecIngest == InitIngest /\ [][NextIngest]_vars

\* One tenant's network scored over the readings one of its devices sends.
HealthCreates ==
    [organization : {ACME},
     sla_uptime_target : {Some(99900), Some(0)}, sla_latency_target : {Some(100000)}]
HealthUpdates ==
    {[status |-> None, sla_uptime_target |-> None, sla_latency_target |-> Some(Some(-50000))],
     [status |-> None, sla_uptime_target |-> None, sla_latency_target |-> Some(Some(500000))],
     [status |-> None, sla_uptime_target |-> Some(None), sla_latency_target |-> None]}
HealthReadings ==
    {[device_id |-> "device-001", organization |-> ACME, timestamp |-> now,
      latency_ms |-> m[1], packet_loss_percent |-> m[2], status |-> m[3]] :
        m \in {<<Some(120000), Some(500), "active">>,
               <<Some(10000000), Some(100000), "offline">>,
               <<Some(0), Some(0), "active">>}}
    \cup {[device_id |-> "device-001", organization |-> ACME, timestamp |-> now - 12,
           latency_ms |-> Some(120000), packet_loss_percent |-> Some(500),
           status |-> "active"]}
\* The network whose health is followed.
ScoredNetwork == <<"net", 1>>

InitHealth ==
    /\ networks = EmptyMap
    /\ partners = EmptyMap
    /\ telemetry = <<>>
    /\ API_KEYS_DB = SeededKeys
    /\ now = 0
    /\ resp = Idle
    /\ inflight = NoQueries

NextHealth ==
    \/ \E n \in HealthCreates : create_network(AdminToken, n, ScoredNetwork)
    \/ \E u \in HealthUpdates : update_network(AdminToken, ScoredNetwork, u)
    \/ \E r \in HealthReadings : send_telemetry(Some(<<"ok", "device_001", 0>>), r)
    \/ \E t \in {AdminToken, PartnerToken}, hours \in {1, 24} :
          get_network_health(t, ScoredNetwork, hours)
    \/ get_network_sla_report(AdminToken, ScoredNetwork, None, None)
    \/ Tick

SpecHealth == InitHealth /\ [][NextHealth]_vars

\* ------------------------------------------------------------- properties
BearerOps ==
    {"create_network", "get_network", "update_network", "delete_network", "list_networks",
     "get_network_health", "get_network_sla_report",
     "onboard_partner", "list_partners", "get_partner", "update_partner", "suspend_partner",
     "activate_partner", "delete_partner", "generate_partner_api_key",
     "get_partner_integration_status",
     "query_telemetry", "get_latest_telemetry", "get_device_latest", "get_device_history",
     "get_telemetry_summary", "delete_device_telemetry", "get_current_user"}
NetworkResourceOps ==
    {"get_network", "update_network", "get_network_health", "get_network_sla_report"}
PartnerResourceOps == {"get_partner", "get_partner_integration_status"}
NetworkOps == NetworkResourceOps \cup {"delete_network"}
PartnerOps ==
    PartnerResourceOps \cup {"update_partner", "suspend_partner", "activate_partner",
                             "delete_partner", "generate_partner_api_key"}

\* The principal a bearer request resolves to.
Caller(r) == get_current_user_from_token(r.cred)

\* A request for one stored network or partner of another tenant, made by a
\* principal that is not an administrator.
CrossTenantRequest(r) ==
    /\ r.op \in NetworkResourceOps \cup PartnerResourceOps
    /\ Caller(r).code = 200
    /\ Caller(r).user.role # "admin"
    /\ IF r.op \in NetworkResourceOps
       THEN /\ r.id \in DOMAIN networks
            /\ ~check_organization_access(Caller(r).user, networks[r.id].organization)
       ELSE /\ r.id \in DOMAIN partners
            /\ ~check_organization_access(Caller(r).user, partners[r.id].organization_name)

\* C1: a per-resource request (get network, update network, network health,
\* SLA report, get partner, partner integration status) by a non-admin
\* principal whose organization differs from the resource's organization is
\* answered 403 with no body, and the stored networks and partners are the
\* same after it as before.
C1_CrossTenantForbidden ==
    [][CrossTenantRequest(resp') =>
          /\ resp'.code = 403
          /\ resp'.body = NoBody
          /\ networks' = networks
          /\ partners' = partners]_vars

\* C1 witness: the partner account of ACME asked to update a stored network
\* of Customer Inc and was refused.
C1_Witness ==
    /\ resp.op = "update_network"
    /\ resp.cred.sub = "acme_partner"
    /\ resp.id \in DOMAIN networks
    /\ networks[resp.id].organization = CUSTOMER
    /\ resp.code = 403

\* A bearer request of an enabled administrator whose target is stored.
AdminRequest(r) ==
    /\ r.op \in BearerOps
    /\ Caller(r).code = 200
    /\ Caller(r).user.role = "admin"
TargetStored(r) ==
    /\ r.op \in NetworkOps => r.id \in DOMAIN networks
    /\ r.op \in PartnerOps => r.id \in DOMAIN partners

\* C2 as stated: no request of an administrator on a stored resource is
\* answered 403, key generation for a partner in any state included.
C2_AdminNeverForbidden ==
    (AdminRequest(resp) /\ TargetStored(resp)) => resp.code # 403

\* C2: an administrator's request is answered 403 only when it asks for a
\* device key for a stored partner whose API access is disabled; no tenant
\* check ever refuses an administrator.
C2_AdminForbiddenOnlyForDisabledPartnerKey ==
    (AdminRequest(resp) /\ resp.code = 403) =>
        /\ resp.op = "generate_partner_api_key"
        /\ resp.id \in DOMAIN partners
        /\ ~partners[resp.id].api_access_enabled

\* C2 witness: the administrator of SpaceLink Internal read the SLA report of a
\* stored network of Customer Inc.
C2_Witness ==
    /\ AdminRequest(resp)
    /\ resp.op = "get_network_sla_report"
    /\ resp.id \in DOMAIN networks
    /\ networks[resp.id].organization = CUSTOMER
    /\ resp.code = 200

\* C9: a bearer request whose token's expiry lies in the past is answered 401
\* whatever the operation, and networks, partners, telemetry and device keys
\* are the same after it as before.
C9_ExpiredTokenUnauthenticated ==
    [][(resp'.op \in BearerOps /\ resp'.cred.exp < now) =>
          /\ resp'.code = 401
          /\ UNCHANGED stores]_vars

\* C9 witness: the administrator's token, issued an hour before it was used,
\* was presented to delete a stored network and was refused.
C9_Witness ==
    /\ resp.op = "delete_network"
    /\ resp.cred.sub = "enterprise_admin"
    /\ resp.cred.sig_ok
    /\ resp.cred.exp < now
    /\ resp.id \in DOMAIN networks
    /\ resp.code = 401

\* C10: a delete of a stored network by an authenticated principal that is not
\* an administrator is answered 403 and leaves the network stored unchanged;
\* a network leaves the store only in a delete by an administrator.
C10_OnlyAdminDeletesNetwork ==
    [][/\ (/\ resp'.op = "delete_network"
           /\ Caller(resp').code = 200
           /\ Caller(resp').user.role # "admin"
           /\ resp'.id \in DOMAIN networks)
          => (/\ resp'.code = 403
              /\ resp'.id \in DOMAIN networks'
              /\ networks'[resp'.id] = networks[resp'.id])
       /\ (\E id \in DOMAIN networks : id \notin DOMAIN networks')
          => (/\ resp'.op = "delete_network"
              /\ Caller(resp').code = 200
              /\ Caller(resp').user.role = "admin"
              /\ resp'.code = 204)]_vars

\* C10 witness: the partner account of ACME asked to delete a stored network
\* of its own organization and was refused.
C10_Witness ==
    /\ resp.op = "delete_network"
    /\ resp.cred.sub = "acme_partner"
    /\ resp.id \in DOMAIN networks
    /\ networks[resp.id].organization = ACME
    /\ resp.code = 403

\* A device request whose key is stored and active, and the key's record.
KeyAccepted(r) == get_api_key_data(r.cred).code = 200
KeyRecord(r) == API_KEYS_DB[r.cred[1]]

\* C3: a single submission under an active key bound to device D whose payload
\* names another device is answered 403, whatever organization the payload
\* names, and the telemetry table is the same after it as before.
C3_MismatchedDeviceRejected ==
    [][(/\ resp'.op = "send_telemetry"
        /\ KeyAccepted(resp')
        /\ resp'.args.device_id # KeyRecord(resp').device_id)
       => (resp'.code = 403 /\ telemetry' = telemetry)]_vars

\* C3 witness: a reading for another device, naming the key's own
\* organization, was refused.
C3_Witness ==
    /\ resp.op = "send_telemetry"
    /\ KeyAccepted(resp)
    /\ resp.args.device_id # KeyRecord(resp).device_id
    /\ resp.args.organization = KeyRecord(resp).organization
    /\ resp.code = 403

\* The items of a batch that name the key's device, in order, as they are
\* stored.
MatchingItems(batch, key_record) ==
    LET kept == SelectSeq(batch, LAMBDA item : item.device_id = key_record.device_id)
    IN [i \in 1..Len(kept) |-> [kept[i] EXCEPT !.organization = key_record.organization]]

\* C4: a batch of n items under an active key bound to device D, k of them
\* naming D, is answered 201 with records_submitted = n and records_created =
\* k, and the telemetry table after it is the table before it followed by the
\* k matching items; no other item is stored.
C4_BatchStoresMatchingItems ==
    [][(resp'.op = "send_telemetry_batch" /\ KeyAccepted(resp')) =>
          LET batch == resp'.args
              D == KeyRecord(resp').device_id
              k == Cardinality({i \in 1..Len(batch) : batch[i].device_id = D})
          IN /\ resp'.code = 201
             /\ resp'.body.records_submitted = Len(batch)
             /\ resp'.body.records_created = k
             /\ Len(telemetry') = Len(telemetry) + k
             /\ telemetry' = telemetry \o MatchingItems(batch, KeyRecord(resp'))]_vars

\* C4 witness: a batch of two items, one of them for another device, stored one.
C4_Witness ==
    /\ resp.op = "send_telemetry_batch"
    /\ resp.code = 201
    /\ resp.body.records_submitted = 2
    /\ resp.body.records_created = 1
    /\ Len(telemetry) >= 1

\* What a health reply was computed from: the network it names and the rows
\* of its window (the query changes neither the targets nor the table).
HealthReply(r) == r.op = "get_network_health" /\ r.id \in DOMAIN networks
RepliedWindow(r) == HealthWindow(networks[r.id], r.args)
RepliedStats(r) == TelemetryStats(RepliedWindow(r))

\* C5: the score a health query returns lies in 0..100 whatever the window's
\* averages, its uptime and the network's targets are, targets set through an
\* update included; the query fails only when a target has been set to null.
C5_HealthScoreInRange ==
    HealthReply(resp) =>
        /\ resp.code = 200 =>
              (resp.body.health_score >= 0 /\ resp.body.health_score <= 100 * Scale)
        /\ resp.code = 500 =>
              (\/ networks[resp.id].sla_uptime_target = None
               \/ networks[resp.id].sla_latency_target = None)

\* C5 witness: a window averaging 10,000 ms latency and 100 % packet loss with
\* no active reading, on a network whose latency target an update altered,
\* was scored 0.
C5_Witness ==
    /\ HealthReply(resp)
    /\ resp.code = 200
    /\ resp.body.avg_latency_ms = Some(10000 * Scale)
    /\ resp.body.avg_packet_loss_percent = Some(100 * Scale)
    /\ resp.body.uptime_percent = 0
    /\ networks[resp.id].sla_latency_target # Some(100 * Scale)
    /\ resp.body.health_score = 0

\* C6 as stated: with no reading in the window the health query answers
\* without a score (so never with 100) and without an uptime figure, and the
\* SLA report answers with its no-data message.
C6_ZeroReadingsReported ==
    /\ (HealthReply(resp) /\ resp.code = 200 /\ RepliedWindow(resp) = {}) =>
          /\ "health_score" \notin DOMAIN resp.body
          /\ "uptime_percent" \notin DOMAIN resp.body
    /\ (/\ resp.op = "get_network_sla_report"
        /\ resp.code = 200
        /\ \A r \in Rows : telemetry[r].organization # networks[resp.id].organization)
       => DOMAIN resp.body = {"message"}

\* The score as C7 words it: a deduction applies when its average is defined.
StatedHealthScore(network, stats, uptime_percent) ==
    LET latency_deduction ==
            IF /\ stats.avg_latency # None
               /\ stats.avg_latency[1] > network.sla_latency_target[1]
            THEN Min(30 * Scale, (stats.avg_latency[1] - network.sla_latency_target[1]) \div 10)
            ELSE 0
        packet_loss_deduction ==
            IF stats.avg_packet_loss # None
            THEN Min(30 * Scale, stats.avg_packet_loss[1] * 3)
            ELSE 0
        uptime_deduction ==
            IF uptime_percent < network.sla_uptime_target[1]
            THEN Min(40 * Scale, (network.sla_uptime_target[1] - uptime_percent) * 2)
            ELSE 0
    IN Min(100 * Scale,
           Max(0, 100 * Scale - latency_deduction - packet_loss_deduction - uptime_deduction))

\* C7 as stated: over a non-empty window the returned uptime is active / total
\* * 100 and the returned score is 100 minus the three capped deductions,
\* the latency deduction applying whenever the average latency is defined and
\* above the target.
C7_ScoreIsStatedFormula ==
    (HealthReply(resp) /\ resp.code = 200 /\ RepliedWindow(resp) # {}) =>
        LET stats == RepliedStats(resp)
            uptime_percent == (Cardinality(ActiveIn(RepliedWindow(resp))) * 100 * Scale)
                                  \div stats.total_readings
        IN /\ resp.body.uptime_percent = Round2(uptime_percent)
           /\ resp.body.health_score =
                 Round2(StatedHealthScore(networks[resp.id], stats, uptime_percent))

\* C8: a health query that directly follows a health query on the same
\* network and window length, nothing having been stored, deleted or updated
\* and no time having passed in between, returns the same score, averages and
\* uptime as the first, although the first wrote its score into the network.
C8_HealthQueryRepeatable ==
    [][(/\ HealthReply(resp)
        /\ resp.code = 200
        /\ resp'.op = "get_network_health"
        /\ resp'.id = resp.id
        /\ resp'.args = resp.args)
       => (resp'.code = 200 /\ resp'.body = resp.body)]_vars

\* C8 witness: a health query scored a network below 100 and the network now
\* stores that score in place of the 100 it was created with.
C8_Witness ==
    /\ HealthReply(resp)
    /\ resp.code = 200
    /\ resp.body.health_score < 100 * Scale
    /\ resp.body.health_score > 0
    /\ networks[resp.id].health_score = resp.body.health_score

\* A bearer token that decodes: signed under the key, not expired, with a subject.
TokenDecodes(token) == token.sig_ok /\ token.exp >= now /\ token.sub # ""

\* C11: on every bearer route a decodable token whose subject has no user
\* record is answered 401 and one whose record is disabled is answered 403;
\* the identity route answers 200 only for a stored, enabled user and then
\* returns the stored record, whose role and organization need not be the
\* token's claims.
C11_PrincipalFromUserStore ==
    (resp.op \in BearerOps /\ TokenDecodes(resp.cred)) =>
        /\ resp.cred.sub \notin UserNames => resp.code = 401
        /\ (resp.cred.sub \in UserNames /\ USERS_DB[resp.cred.sub].disabled)
              => resp.code = 403
        /\ resp.op = "get_current_user" =>
              /\ resp.code = 200 <=>
                    (resp.cred.sub \in UserNames /\ ~USERS_DB[resp.cred.sub].disabled)
              /\ resp.code = 200 => resp.body = USERS_DB[resp.cred.sub]

\* C11 witness: a token claiming role admin for the stored customer account
\* was resolved to the stored customer principal.
C11_Witness ==
    /\ resp.op = "get_current_user"
    /\ resp.cred = StaleClaimsToken
    /\ resp.code = 200
    /\ resp.body.role = "customer"
    /\ resp.body.organization = CUSTOMER

\* C12: a device request is resolved only when its key is stored and active.
\* With no header, an unknown key or an inactive key it is answered 401 and
\* the key store and the telemetry table stay as they were; with a stored
\* active key it is not answered 401 and the key store after it differs from
\* the one before exactly in that key's last-used time, which is the current
\* time, whether or not the request is then refused for its device id.
C12_KeyResolution ==
    [][resp'.op \in {"send_telemetry", "send_telemetry_batch"} =>
          LET header == resp'.cred
              stored == header # None /\ header[1] \in DOMAIN API_KEYS_DB
          IN IF stored /\ API_KEYS_DB[header[1]].active
             THEN /\ resp'.code # 401
                  /\ API_KEYS_DB' = [API_KEYS_DB EXCEPT ![header[1]].last_used = Some(now)]
             ELSE /\ resp'.code = 401
                  /\ API_KEYS_DB' = API_KEYS_DB
                  /\ telemetry' = telemetry]_vars

\* C12 witness: a reading refused for its device id, an hour after the start,
\* left the key stamped with that hour.
C12_Witness ==
    /\ resp.op = "send_telemetry"
    /\ resp.code = 403
    /\ now = 1
    /\ API_KEYS_DB[resp.cred[1]].last_used = Some(1)

\* Two networks scored over one table.
MaxScored == 2
ScoredNetworks == {<<"net", i>> : i \in 1..MaxScored}
ScoredCreates ==
    [organization : Organizations,
     sla_uptime_target : {Some(99900)}, sla_latency_target : {Some(100000)}]
ScoredReadings ==
    {[device_id |-> "device-001", organization |-> ACME, timestamp |-> now,
      latency_ms |-> m[1], packet_loss_percent |-> m[2], status |-> m[3]] :
        m \in {<<Some(120000), Some(500), "active">>,
               <<Some(10000000), Some(100000), "offline">>}}

NextScores ==
    \/ \E n \in ScoredCreates, id \in ScoredNetworks : Ready /\ create_network(AdminToken, n, id)
    \/ \E r \in ScoredReadings : Ready /\ send_telemetry(Some(<<"ok", "device_001", 0>>), r)
    \/ \E t \in {AdminToken, PartnerToken}, id \in ScoredNetworks :
          Ready /\ get_network_health(t, id, 24)
    \/ Ready /\ Tick
    \/ Respond

SpecScores == InitHealth /\ [][NextScores]_vars

ConcurrentReadings ==
    ScoredReadings
    \cup {[device_id |-> "device-001", organization |-> ACME, timestamp |-> now,
           latency_ms |-> Some(0), packet_loss_percent |-> Some(0), status |-> "active"]}
NextConcurrent ==
    \/ \E n \in ScoredCreates : create_network(AdminToken, n, ScoredNetwork)
    \/ \E r \in ConcurrentReadings : send_telemetry(Some(<<"ok", "device_001", 0>>), r)
    \/ \E q \in QueryIds : HealthLoad(q, PartnerToken, ScoredNetwork, 24)
    \/ \E q \in QueryIds : HealthAggregate(q)
    \/ \E q \in QueryIds : HealthCountActive(q)
    \/ \E q \in QueryIds : HealthCommit(q)

SpecConcurrent == InitHealth /\ [][NextConcurrent]_vars

\* The queries on the followed network that have returned a score.
Scored == {q \in QueryIds : inflight.query[q].pc = "done" /\ inflight.query[q].code = 200}
AllScored == Scored = QueryIds
\* What a query run now, alone, would return.
FreshScore ==
    LET network == networks[ScoredNetwork]
        rows == HealthWindow(network, 24)
        stats == TelemetryStats(rows)
    IN Round2(HealthScore(network, stats,
                          UptimePercent(Cardinality(ActiveIn(rows)), stats.total_readings)))

\* C14: health queries on one network whose statements interleave with each
\* other and with telemetry inserts all finish: a query past the lookup and
\* the organization check can always take its next step and ends with 200.
\* Once all have returned, the network stores one of the scores they
\* computed, and if any of them wrote, the score of the one whose write was
\* committed last.
C14_LastWriteWins ==
    /\ \A q \in QueryIds :
          /\ inflight.query[q].pc = "loaded" => ENABLED HealthAggregate(q)
          /\ inflight.query[q].pc = "aggregated" => ENABLED HealthCountActive(q)
          /\ inflight.query[q].pc = "counted" => ENABLED HealthCommit(q)
          /\ inflight.query[q].pc = "done" => inflight.query[q].code \in {200, 403, 404}
    /\ AllScored =>
          /\ \E q \in QueryIds :
                networks[ScoredNetwork].health_score = inflight.query[q].health_score
          /\ inflight.writes # <<>> =>
                networks[ScoredNetwork].health_score =
                    inflight.query[inflight.writes[Len(inflight.writes)]].health_score

\* C14 witness: two queries have returned different scores, both wrote, and
\* the network stores the score of the later write, which is not the score
\* the readings now in the window give.
C14_Witness ==
    /\ AllScored
    /\ Len(inflight.writes) = 2
    /\ \E p, q \in QueryIds :
          inflight.query[p].health_score # inflight.query[q].health_score
    /\ networks[ScoredNetwork].health_score # FreshScore

\* ------------------------------------------------------------ SLA reports
\* One tenant's network reported over readings with and without a latency.
SlaCreates ==
    [organization : {ACME},
     sla_uptime_target : {Some(99900), Some(50000)}, sla_latency_target : {Some(100000)}]
SlaReadings ==
    {[device_id |-> "device-001", organization |-> ACME, timestamp |-> now,
      latency_ms |-> m[1], packet_loss_percent |-> None, status |-> m[2]] :
        m \in {None, Some(0), Some(120000)} \X {"active", "offline"}}

NextSla ==
    \/ \E n \in SlaCreates : Ready /\ create_network(AdminToken, n, ScoredNetwork)
    \/ \E r \in SlaReadings : Ready /\ send_telemetry(Some(<<"ok", "device_001", 0>>), r)
    \/ \E t \in {AdminToken, PartnerToken}, start_date \in {None, Some(now)} :
          Ready /\ get_network_sla_report(t, ScoredNetwork, start_date, None)
    \/ Ready /\ Tick
    \/ Respond

SpecSla == InitHealth /\ [][NextSla]_vars

\* An SLA report that carries figures.
SlaReply(r) ==
    /\ r.op = "get_network_sla_report"
    /\ r.code = 200
    /\ r.id \in DOMAIN networks
\* The readings in the period a report was asked over.
ReportedRange(r) ==
    LET period_start == IF r.args.start_date = None THEN now - SlaDefaultDays
                        ELSE r.args.start_date[1]
    IN {t \in Rows : /\ telemetry[t].organization = networks[r.id].organization
                     /\ telemetry[t].timestamp >= period_start
                     /\ telemetry[t].timestamp <= now}
WithLatency(rows) == {t \in rows : telemetry[t].latency_ms # None}
RangeUptime(rows) == (Cardinality(ActiveIn(rows)) * 100 * Scale) \div Cardinality(rows)
RangeMeanLatency(rows) ==
    SumOf([t \in WithLatency(rows) |-> telemetry[t].latency_ms[1]], WithLatency(rows))
        \div Cardinality(WithLatency(rows))

\* C15 as stated: an SLA report over a range holding readings of which none
\* carries a latency gives latency_compliance null, and its status is
\* COMPLIANT exactly when uptime_compliance is true.
C15_MissingLatencyDoesNotBlock ==
    (/\ SlaReply(resp)
     /\ ReportedRange(resp) # {}
     /\ WithLatency(ReportedRange(resp)) = {})
    => /\ resp.body.latency_compliance = None
       /\ (resp.body.status = "COMPLIANT") <=> resp.body.uptime_compliance

\* C16 as stated: an SLA report over a range holding a reading with a latency
\* (a latency of 0 too) gives uptime_compliance as uptime >= uptime target,
\* latency_compliance as mean latency <= latency target, and is COMPLIANT
\* exactly when both hold.
C16_ComplianceFlags ==
    (/\ SlaReply(resp)
     /\ WithLatency(ReportedRange(resp)) # {})
    => LET network == networks[resp.id]
           rows == ReportedRange(resp)
           uptime_ok == RangeUptime(rows) >= network.sla_uptime_target[1]
           latency_ok == RangeMeanLatency(rows) <= network.sla_latency_target[1]
       IN /\ resp.body.uptime_compliance = uptime_ok
          /\ resp.body.latency_compliance = Some(latency_ok)
          /\ (resp.body.status = "COMPLIANT") <=> (uptime_ok /\ latency_ok)

\* ------------------------------------------------------ telemetry queries
\* Two tenants' devices feed the table; an administrator, a partner of one
\* tenant and a customer of the other query it.
CustomerToken == create_access_token(USERS_DB["customer_user"], 0)
QueryCallers == {AdminToken, PartnerToken, CustomerToken}
QuerySenders ==
    {<<Some(<<"ok", "device_001", 0>>), "device-001">>,
     <<Some(<<"ok", "device_002", 0>>), "mobile-001">>}
QueryReading(device_id, status) ==
    [device_id |-> device_id, organization |-> ACME, timestamp |-> now,
     latency_ms |-> Some(120000), packet_loss_percent |-> Some(500), status |-> status]
QueryPages == {<<100, 0>>, <<1, 1>>}

NextQuery ==
    \/ \E s \in QuerySenders, status \in {"active", "offline"} :
          Ready /\ send_telemetry(s[1], QueryReading(s[2], status))
    \/ \E t \in QueryCallers, device_id \in {"", "mobile-001"},
          organization \in {"", ACME, CUSTOMER}, status \in {"", "offline"},
          start_time \in {None, Some(now)}, end_time \in {None, Some(0)},
          page \in QueryPages :
          Ready /\ query_telemetry(t, device_id, organization, status, start_time, end_time,
                                   page[1], page[2])
    \/ Ready /\ Tick
    \/ Respond

SpecQuery == InitHealth /\ [][NextQuery]_vars

\* The rows that pass the filters of a query other than the organization's.
PassingRows(r) ==
    {t \in Rows :
        /\ r.args.device_id # "" => telemetry[t].device_id = r.args.device_id
        /\ r.args.status # "" => telemetry[t].status = r.args.status
        /\ r.args.start_time # None => telemetry[t].timestamp >= r.args.start_time[1]
        /\ r.args.end_time # None => telemetry[t].timestamp <= r.args.end_time[1]}
\* A reply holds the rows of S, each once.
HoldsExactly(body, S) ==
    /\ Len(body) = Cardinality(S)
    /\ \A t \in S :
          Cardinality({i \in DOMAIN body : body[i] = telemetry[t]})
              = Cardinality({u \in S : telemetry[u] = telemetry[t]})

\* C17: every record a telemetry query returns to a caller who is not an
\* administrator belongs to the caller's organization, whatever the filters
\* and whatever organization the caller names; an administrator who asks for
\* a whole page gets the passing rows of every tenant, or of exactly the
\* tenant named.
C17_QueryStaysInTenant ==
    (resp.op = "query_telemetry" /\ resp.code = 200) =>
        IF Caller(resp).user.role # "admin"
        THEN \A i \in DOMAIN resp.body :
                resp.body[i].organization = Caller(resp).user.organization
        ELSE resp.args.offset = 0 =>
                HoldsExactly(resp.body,
                    {t \in PassingRows(resp) :
                        resp.args.organization # "" =>
                            telemetry[t].organization = resp.args.organization})

\* C17 witness: with a reading of Customer Inc stored, the partner of ACME
\* Corporation asked for the readings of Customer Inc and was answered with
\* readings.
C17_Witness ==
    /\ resp.op = "query_telemetry"
    /\ resp.code = 200
    /\ Caller(resp).user.role = "partner"
    /\ resp.args.organization = CUSTOMER
    /\ \E t \in Rows : telemetry[t].organization = CUSTOMER
    /\ Len(resp.body) > 0

\* ------------------------------------------------- latest reading per device
\* An administrator onboards Customer Inc as a partner and issues it a key for
\* a device id that ACME Corporation's seeded key also names; both tenants'
\* devices then report, and the three principals read and purge.
LatestPartner == <<"partner", 1>>
LatestKey == <<"ok", "device-001", 1>>
LatestSenders ==
    {<<Some(<<"ok", "device_001", 0>>), "device-001">>,
     <<Some(LatestKey), "device-001">>,
     <<Some(<<"ok", "device_002", 0>>), "mobile-001">>}

NextLatest ==
    \/ Ready /\ onboard_partner(AdminToken, [organization_name |-> CUSTOMER], LatestPartner)
    \/ Ready /\ generate_partner_api_key(AdminToken, LatestPartner, "device-001", 1)
    \/ \E s \in LatestSenders : Ready /\ send_telemetry(s[1], QueryReading(s[2], "active"))
    \/ \E t \in QueryCallers : Ready /\ get_latest_telemetry(t)
    \/ \E t \in QueryCallers, d \in Devices : Ready /\ delete_device_telemetry(t, d)
    \/ Ready /\ Tick
    \/ Respond

SpecLatest == InitHealth /\ [][NextLatest]_vars

\* A latest-per-device reply and the rows its caller may see.
LatestReply(r) == r.op = "get_latest_telemetry" /\ r.code = 200
VisibleRows(r) ==
    {t \in Rows : Caller(r).user.role # "admin" =>
                     telemetry[t].organization = Caller(r).user.organization}
VisibleOf(r, device_id) == {t \in VisibleRows(r) : telemetry[t].device_id = device_id}

\* C18 as stated: every record latest-per-device returns to a caller who is
\* not an administrator belongs to the caller's organization.
C18_LatestStaysInTenant ==
    (LatestReply(resp) /\ Caller(resp).user.role # "admin") =>
        \A i \in DOMAIN resp.body :
            resp.body[i].organization = Caller(resp).user.organization

\* C19 as stated: latest-per-device returns, for each device with a reading
\* its caller may see, exactly one reading, carrying the greatest timestamp
\* of the device's visible readings, and none for any other device.
C19_OneLatestPerDevice ==
    LatestReply(resp) =>
        /\ \A d \in Devices :
              LET returned == {i \in DOMAIN resp.body : resp.body[i].device_id = d}
              IN IF VisibleOf(resp, d) = {} THEN returned = {}
                 ELSE /\ Cardinality(returned) = 1
                      /\ \A i \in returned :
                            /\ \E t \in VisibleOf(resp, d) : telemetry[t] = resp.body[i]
                            /\ \A t \in VisibleOf(resp, d) :
                                  telemetry[t].timestamp <= resp.body[i].timestamp
        /\ \A i \in DOMAIN resp.body : resp.body[i].device_id \in Devices

\* The number of stored readings equal to x.
CountOf(table, x) == Cardinality({i \in DOMAIN table : table[i] = x})

\* C20: a purge of a device's telemetry asked by a principal who is not an
\* administrator is answered 403 and changes no store, the device being the
\* principal's own tenant's or not; asked by an administrator it is answered
\* 404 and changes no store when no reading names the device, and otherwise
\* removes the readings naming the device, of every tenant, and keeps every
\* other reading.
C20_OnlyAdminPurgesDevice ==
    [][(resp'.op = "delete_device_telemetry" /\ Caller(resp').code = 200) =>
          LET of_device == {t \in Rows : telemetry[t].device_id = resp'.id}
          IN IF Caller(resp').user.role # "admin"
             THEN resp'.code = 403 /\ UNCHANGED stores
             ELSE IF of_device = {}
             THEN resp'.code = 404 /\ UNCHANGED stores
             ELSE /\ resp'.code = 204
                  /\ Len(telemetry') = Len(telemetry) - Cardinality(of_device)
                  /\ \A t \in Rows :
                        CountOf(telemetry', telemetry[t]) =
                            IF t \in of_device THEN 0 ELSE CountOf(telemetry, telemetry[t])
                  /\ UNCHANGED <<networks, partners, API_KEYS_DB>>]_vars

\* C20 witness: an administrator purged device-001, which both tenants' keys
\* had reported for, and the reading of mobile-001 is still stored.
C20_Witness ==
    /\ resp.op = "delete_device_telemetry"
    /\ resp.code = 204
    /\ resp.id = "device-001"
    /\ Caller(resp).user.role = "admin"
    /\ LatestKey \in DOMAIN API_KEYS_DB
    /\ API_KEYS_DB[LatestKey].last_used # None
    /\ API_KEYS_DB[<<"ok", "device_001", 0>>].last_used # None
    /\ \E t \in Rows : telemetry[t].device_id = "mobile-001"
    /\ \A t \in Rows : telemetry[t].device_id # "device-001"

\* ------------------------------------------------- roles and ownership
\* C21: creating a network is refused with 403, the stores unchanged, to a
\* customer or read-only principal, its own tenant's network included, and to
\* a partner naming another organization; otherwise it stores one new network
\* with status active and health score 100.  A partner's update of a stored
\* network of another organization is refused with 403 and changes no network.
C21_NetworkMutationGate ==
    [][/\ (resp'.op = "create_network" /\ Caller(resp').code = 200) =>
             LET user == Caller(resp').user
                 network == resp'.args
             IN IF user.role \notin {"admin", "partner"}
                THEN resp'.code = 403 /\ UNCHANGED stores
                ELSE IF user.role = "partner" /\ network.organization # user.organization
                THEN resp'.code = 403 /\ UNCHANGED stores
                ELSE /\ resp'.code = 201
                     /\ resp'.id \notin DOMAIN networks
                     /\ DOMAIN networks' = DOMAIN networks \cup {resp'.id}
                     /\ \A n \in DOMAIN networks : networks'[n] = networks[n]
                     /\ networks'[resp'.id].organization = network.organization
                     /\ networks'[resp'.id].status = "active"
                     /\ networks'[resp'.id].health_score = 100 * Scale
       /\ (/\ resp'.op = "update_network"
           /\ Caller(resp').code = 200
           /\ Caller(resp').user.role = "partner"
           /\ resp'.id \in DOMAIN networks
           /\ networks[resp'.id].organization # Caller(resp').user.organization)
          => resp'.code = 403 /\ UNCHANGED stores]_vars

\* C21 witness: the customer of Customer Inc asked to create a network for
\* Customer Inc and was refused.
C21_Witness ==
    /\ resp.op = "create_network"
    /\ resp.code = 403
    /\ Caller(resp).code = 200
    /\ Caller(resp).user.role = "customer"
    /\ resp.args.organization = Caller(resp).user.organization

\* The partner operations reserved to administrators.
AdminPartnerOps ==
    {"onboard_partner", "update_partner", "suspend_partner", "activate_partner",
     "delete_partner", "generate_partner_api_key"}

\* C22: onboarding, updating, suspending, activating or deleting a partner, or
\* generating a device key for one, asked by a principal who is not an
\* administrator is answered 403 and leaves partners and device keys (and the
\* other stores) as they were, the partner being of the caller's organization
\* or not.
C22_PartnerAdminOnly ==
    [][(/\ resp'.op \in AdminPartnerOps
        /\ Caller(resp').code = 200
        /\ Caller(resp').user.role # "admin")
       => /\ resp'.code = 403
          /\ UNCHANGED stores]_vars

\* C22 witness: the partner of ACME Corporation asked to suspend the stored
\* partner record of ACME Corporation and was refused.
C22_Witness ==
    /\ resp.op = "suspend_partner"
    /\ resp.code = 403
    /\ Caller(resp).code = 200
    /\ Caller(resp).user.role = "partner"
    /\ resp.id \in DOMAIN partners
    /\ partners[resp.id].organization_name = Caller(resp).user.organization
    /\ partners[resp.id].status = "active"

\* ------------------------------------------------------------ key issuance
\* An administrator manages partners and issues them keys for device-001
\* while the seeded and the issued keys report.
KeyPartnerUpdates ==
    PartnerUpdates \cup {[organization_name |-> None, status |-> Some("suspended")]}
IssuedKeys == {<<"ok", "device-001", k>> : k \in 1..MaxKeys}
KeysPresented == {Some(<<"ok", "device_001", 0>>)} \cup {Some(k) : k \in IssuedKeys}

NextKeys ==
    \/ \E p \in PartnerCreates, id \in PartnerIds : Ready /\ onboard_partner(AdminToken, p, id)
    \/ \E id \in PartnerIds, u \in KeyPartnerUpdates : Ready /\ update_partner(AdminToken, id, u)
    \/ \E id \in PartnerIds : Ready /\ suspend_partner(AdminToken, id)
    \/ \E id \in PartnerIds : Ready /\ activate_partner(AdminToken, id)
    \/ \E id \in PartnerIds : Ready /\ delete_partner(AdminToken, id)
    \/ \E id \in PartnerIds, k \in 1..MaxKeys :
          Ready /\ generate_partner_api_key(AdminToken, id, "device-001", k)
    \/ \E k \in KeysPresented : Ready /\ send_telemetry(k, QueryReading("device-001", "active"))
    \/ Ready /\ Tick
    \/ Respond

SpecKeys == InitHealth /\ [][NextKeys]_vars

\* C23: a key in the key store stays in it with the device id and the
\* organization (and the active flag) it was issued with, whatever is done
\* next; of its fields only last_used changes.
C23_KeyBindingImmutable ==
    [][\A k \in DOMAIN API_KEYS_DB :
          /\ k \in DOMAIN API_KEYS_DB'
          /\ API_KEYS_DB'[k].device_id = API_KEYS_DB[k].device_id
          /\ API_KEYS_DB'[k].organization = API_KEYS_DB[k].organization
          /\ API_KEYS_DB'[k].active = API_KEYS_DB[k].active]_vars

\* C23 witness: a key issued to a partner has been used, and the partner has
\* since been renamed and suspended; the key still names the organization it
\* was issued for.
C23_Witness ==
    \E k \in IssuedKeys \cap DOMAIN API_KEYS_DB, p \in DOMAIN partners :
        /\ API_KEYS_DB[k].last_used # None
        /\ ~partners[p].api_access_enabled
        /\ partners[p].organization_name # API_KEYS_DB[k].organization

\* C25: generating a key for a stored partner whose api access is disabled
\* (as suspend_partner leaves it) is answered 403 and changes no store; for a
\* partner whose access is enabled (as activate_partner leaves it) it is
\* answered 200 and adds one key, active, bound to the device id given and to
\* the partner's organization name, every other key staying as it was.
\* Suspending a partner changes no key.
C25_SuspensionBlocksIssuance ==
    [][/\ (/\ resp'.op = "generate_partner_api_key"
           /\ Caller(resp').code = 200
           /\ Caller(resp').user.role = "admin"
           /\ resp'.id \in DOMAIN partners)
          => IF ~partners[resp'.id].api_access_enabled
             THEN resp'.code = 403 /\ UNCHANGED stores
             ELSE /\ resp'.code = 200
                  /\ resp'.body.api_key \notin DOMAIN API_KEYS_DB
                  /\ DOMAIN API_KEYS_DB' = DOMAIN API_KEYS_DB \cup {resp'.body.api_key}
                  /\ \A k \in DOMAIN API_KEYS_DB : API_KEYS_DB'[k] = API_KEYS_DB[k]
                  /\ API_KEYS_DB'[resp'.body.api_key].active
                  /\ API_KEYS_DB'[resp'.body.api_key].device_id = resp'.args
                  /\ API_KEYS_DB'[resp'.body.api_key].organization =
                        partners[resp'.id].organization_name
       /\ resp'.op = "suspend_partner" => API_KEYS_DB' = API_KEYS_DB]_vars

\* C25 witness: a partner that had been issued a key was suspended and asked
\* a second key, which was refused; the first key is still active.
C25_Witness ==
    /\ resp.op = "generate_partner_api_key"
    /\ resp.code = 403
    /\ Caller(resp).user.role = "admin"
    /\ resp.id \in DOMAIN partners
    /\ partners[resp.id].status = "suspended"
    /\ ~partners[resp.id].api_access_enabled
    /\ \E k \in IssuedKeys \cap DOMAIN API_KEYS_DB :
          /\ API_KEYS_DB[k].organization = partners[resp.id].organization_name
          /\ API_KEYS_DB[k].active

\* C24: every record a single or batch submission adds to the telemetry table
\* carries the organization and the device id bound to the key presented,
\* whatever organization its payload declared; the records already stored stay
\* as they were, and a submission whose key is refused adds none.
C24_StoredUnderKeyTenant ==
    [][resp'.op \in {"send_telemetry", "send_telemetry_batch"} =>
          /\ Len(telemetry') >= Len(telemetry)
          /\ SubSeq(telemetry', 1, Len(telemetry)) = telemetry
          /\ ~KeyAccepted(resp') => telemetry' = telemetry
          /\ \A i \in (Len(telemetry) + 1)..Len(telemetry') :
                /\ telemetry'[i].organization = KeyRecord(resp').organization
                /\ telemetry'[i].device_id = KeyRecord(resp').device_id]_vars

\* C24 witness: a reading declared for another organization than the key's
\* was stored, under the key's organization.
C24_Witness ==
    /\ resp.op = "send_telemetry"
    /\ resp.code = 201
    /\ resp.args.organization # KeyRecord(resp).organization
    /\ telemetry # <<>>
    /\ telemetry[Len(telemetry)].organization = KeyRecord(resp).organization
    /\ telemetry[Len(telemetry)].device_id = resp.args.device_id

\* ------------------------------------------------- uptime under interleaving
\* The uptime a finished health query returned: computed from the count of
\* its aggregate statement and the count of its active-readings statement.
ReturnedUptime(q) ==
    Round2(UptimePercent(inflight.query[q].active_readings,
                         inflight.query[q].stats.total_readings))

\* C26 as stated: the uptime_percent a health query returns lies in 0..100,
\* also when readings are committed between its two counts.
C26_UptimeInRange ==
    \A q \in Scored : ReturnedUptime(q) >= 0 /\ ReturnedUptime(q) <= 100 * Scale

\* ------------------------------------------------------- tenant isolation
\* One tenant's network is scored and reported while both tenants' devices
\* report and an administrator purges devices.
IsolationSenders ==
    {<<Some(<<"ok", "device_001", 0>>), "device-001">>,
     <<Some(<<"ok", "device_002", 0>>), "mobile-001">>}
IsolationReading(device_id, m) ==
    [device_id |-> device_id, organization |-> ACME, timestamp |-> now,
     latency_ms |-> m[1], packet_loss_percent |-> m[2], status |-> m[3]]
IsolationMetrics ==
    {<<Some(120000), Some(500), "active">>, <<Some(10000000), Some(100000), "offline">>}

NextIsolation ==
    \/ \E n \in SlaCreates : Ready /\ create_network(AdminToken, n, ScoredNetwork)
    \/ \E s \in IsolationSenders, m \in IsolationMetrics :
          Ready /\ send_telemetry(s[1], IsolationReading(s[2], m))
    \/ \E d \in Devices : Ready /\ delete_device_telemetry(AdminToken, d)
    \/ \E t \in {AdminToken, PartnerToken} : Ready /\ get_network_health(t, ScoredNetwork, 24)
    \/ \E t \in {AdminToken, PartnerToken} :
          Ready /\ get_network_sla_report(t, ScoredNetwork, None, None)
    \/ Ready /\ Tick
    \/ Respond

SpecIsolation == InitHealth /\ [][NextIsolation]_vars

\* The readings of one organization, in table order, and figures computed
\* from such a list alone.
ReadingsOf(organization) ==
    LET owned(r) == r.organization = organization
    IN SelectSeq(telemetry, owned)
Since(table, start) == {i \in DOMAIN table : table[i].timestamp >= start}
MeanOver(table, S, field) ==
    LET with_value == {i \in S : table[i][field] # None}
    IN IF with_value = {} THEN None
       ELSE Some(SumOf([i \in with_value |-> table[i][field][1]], with_value)
                    \div Cardinality(with_value))
ActiveOver(table, S) == Cardinality({i \in S : table[i].status = "active"})
\* The health reply as a function of a network and its own tenant's readings.
HealthOver(network, table, start) ==
    LET S == Since(table, start)
        stats == [avg_latency |-> MeanOver(table, S, "latency_ms"),
                  avg_packet_loss |-> MeanOver(table, S, "packet_loss_percent"),
                  total_readings |-> Cardinality(S)]
        uptime_percent == UptimePercent(ActiveOver(table, S), Cardinality(S))
    IN NetworkHealth(network, HealthScore(network, stats, uptime_percent), stats,
                     uptime_percent)
\* The SLA figures as a function of a network and its own tenant's readings.
SlaOver(network, table, start, end) ==
    LET S == {i \in Since(table, start) : table[i].timestamp <= end}
        uptime_percent == (ActiveOver(table, S) * 100 * Scale) \div Cardinality(S)
        avg_latency == MeanOver(table, S, "latency_ms")
        uptime_compliance == uptime_percent >= network.sla_uptime_target[1]
        latency_compliance == IF Truthy(avg_latency)
                              THEN Some(avg_latency[1] <= network.sla_latency_target[1])
                              ELSE None
    IN IF S = {} THEN [message |-> "No telemetry data available for this period"]
       ELSE [organization |-> network.organization,
             total_readings |-> Cardinality(S),
             uptime_percent |-> Round2(uptime_percent),
             avg_latency_ms |-> RoundOrNone(avg_latency),
             uptime_compliance |-> uptime_compliance,
             latency_compliance |-> latency_compliance,
             status |-> SlaStatus(uptime_compliance, latency_compliance)]

\* C27: the health reply and the SLA report of a network are what its targets
\* and the readings of its own organization alone give, so that two tables
\* with the same readings of that organization give the same reply whatever
\* other tenants' readings they hold.
C27_OnlyOwnTenantReadingsCount ==
    /\ (HealthReply(resp) /\ resp.code = 200) =>
          resp.body = HealthOver(networks[resp.id],
                                 ReadingsOf(networks[resp.id].organization),
                                 now - resp.args).body
    /\ SlaReply(resp) =>
          resp.body = SlaOver(networks[resp.id],
                              ReadingsOf(networks[resp.id].organization),
                              now - SlaDefaultDays, now)

\* C27 witness: ACME Corporation's network was given an uptime of 100 over
\* its own readings while the table also held an offline reading of Customer
\* Inc, which would have lowered the uptime had it counted.
C27_Witness ==
    /\ HealthReply(resp)
    /\ resp.code = 200
    /\ networks[resp.id].organization = ACME
    /\ resp.body.uptime_percent = 100 * Scale
    /\ \E t \in Rows : telemetry[t].organization = ACME
    /\ \E t \in Rows : telemetry[t].organization = CUSTOMER /\ telemetry[t].status = "offline"

\* C28: a stored network keeps its id and its organization through every
\* request, by whatever principal; it leaves the store only by delete_network.
C28_NetworkOwnerImmutable ==
    [][\A n \in DOMAIN networks :
          IF n \in DOMAIN networks'
          THEN networks'[n].organization = networks[n].organization
          ELSE resp'.op = "delete_network" /\ resp'.id = n]_vars

\* C28 witness: the partner of ACME Corporation updated ACME Corporation's
\* network, which is in maintenance now and still ACME Corporation's.
C28_Witness ==
    /\ resp.op = "update_network"
    /\ Caller(resp).user.role = "partner"
    /\ resp.id \in DOMAIN networks
    /\ networks[resp.id].status = "maintenance"
    /\ networks[resp.id].organization = ACME

\* C29: every stored network's health score lies in 0..100 in every state, and
\* the score of a stored network changes only in a health query on that
\* network.
C29_StoredScoreInRange ==
    /\ [](\A n \in DOMAIN networks :
            networks[n].health_score >= 0 /\ networks[n].health_score <= 100 * Scale)
    /\ [][\A n \in DOMAIN networks \cap DOMAIN networks' :
             networks'[n].health_score # networks[n].health_score =>
                resp'.op = "get_network_health" /\ resp'.id = n]_vars

\* C29 witness: a network whose latency target an update made negative was
\* scored, and stores a score below 100.
C29_Witness ==
    \E n \in DOMAIN networks :
        /\ networks[n].sla_latency_target = Some(-50000)
        /\ networks[n].health_score < 100 * Scale
        /\ resp.op = "get_network_health"
        /\ resp.id = n

\* The operations on one id that only administrators may ask.
AdminGatedOps == {"delete_network", "suspend_partner", "activate_partner", "delete_partner"}

\* C30: the role gate comes before the lookup, the lookup before the tenant
\* check.  A resolved caller who is not an administrator is answered 403 by
\* delete_network and by suspending, activating or deleting a partner, the id
\* being stored or not; a caller who passes the role gate is answered 404 for
\* a network id that is not stored and 403 for a stored network of another
\* organization.
C30_CheckOrder ==
    [][(resp'.op \in BearerOps /\ Caller(resp').code = 200) =>
          LET user == Caller(resp').user
              passes_gate ==
                 CASE resp'.op = "delete_network" -> user.role \in {"admin"}
                   [] resp'.op \in {"create_network", "update_network"} ->
                         user.role \in {"admin", "partner"}
                   [] OTHER -> TRUE
          IN /\ (resp'.op \in AdminGatedOps /\ user.role # "admin") => resp'.code = 403
             /\ (/\ resp'.op \in NetworkResourceOps \cup {"delete_network"}
                 /\ passes_gate)
                => /\ resp'.id \notin DOMAIN networks => resp'.code = 404
                   /\ (/\ resp'.id \in DOMAIN networks
                       /\ user.role # "admin"
                       /\ networks[resp'.id].organization # user.organization)
                      => resp'.code = 403]_vars

\* C30 witness: the partner of ACME Corporation asked to delete a network id
\* that is not stored and was answered 403, not 404.
C30_Witness ==
    /\ resp.op = "delete_network"
    /\ Caller(resp).code = 200
    /\ Caller(resp).user.role = "partner"
    /\ resp.id \notin DOMAIN networks
    /\ resp.code = 403

====
